---- MODULE Spec2Model ----
(***************************************************************************)
(* A model of the fixers of three2six (src/src/three2six/fixers.py) and of *)
(* the build of a package (src/src/lib3to6/packaging.py).                  *)
(*                                                                         *)
(* Syntax trees are records: field "cls" is the node class, the other      *)
(* fields are the node's ast fields.  A field holds a node (a record), a   *)
(* list of nodes (a sequence) or a primitive (a string or a number).       *)
(* Python's None is the record NoneNode, a bare str held in a list field   *)
(* (Global.names) is a record of class "str".  Names are strings, the      *)
(* characters of a version string are one-character strings.               *)
(***************************************************************************)
EXTENDS Integers, Sequences, FiniteSets, TLC

VARIABLES
    fixer,              \* the fixer (instance) the current scenario runs
    pc,                 \* where the running call is
    src_tree,           \* the statement list the fixer was first called on
    body,               \* tree.body, mutated in place by the fixer
    initial_len_body,   \* apply_body_updates: local of the top-level call
    prev_len_body,      \* apply_body_updates: local of the top-level call
    tmp_var_index,      \* UnpackingGeneralizationsFixer._tmp_var_index
    run,                \* how many times __call__ was entered on this tree
    first_out,          \* tree.body as the first call returned it
    err,                \* the exception that ended the call ("" when none)
    required_imports,   \* FixerBase.required_imports of the instance
    version,            \* argument of is_required_for / is_compatible_with
    answer,             \* what the last version query returned
    probe_in,           \* argument of a directly called method
    probe_out,          \* what the directly called method returned
    cfg,                \* build_package: the BuildConfig of the last call
    package_dir,        \* src: the package's src_package_dir; files: the
                        \* files under it, by path
    build_dir,          \* the files under build_dir, by path
    cache,              \* the files of CACHE_DIR, by the hash in their name
    transpiled          \* the files the last build_package transpiled

vars == <<fixer, pc, src_tree, body, initial_len_body, prev_len_body,
          tmp_var_index, run, first_out, err, required_imports, version,
          answer, probe_in, probe_out, cfg, package_dir, build_dir, cache,
          transpiled>>

----------------------------------------------------------------------------
(* Bounds of the model.                                                    *)

MaxElts == 3
MaxKeywords == 2
WideSlack == 1
MaxRuns == 2
MaxMinor == 10
MaxKwOnly == 2
MaxIndex == 1
MaxBuilds == 2

----------------------------------------------------------------------------
(* Nodes.                                                                  *)

NoneNode == [cls |-> "NoneType"]
Load == [cls |-> "Load"]
Store == [cls |-> "Store"]
Del == [cls |-> "Del"]

Name(id, ctx) == [cls |-> "Name", id |-> id, ctx |-> ctx]
Num(n) == [cls |-> "Num", n |-> n]
Str(s) == [cls |-> "Str", s |-> s]
Starred(value) == [cls |-> "Starred", value |-> value, ctx |-> Load]
Attribute(value, attr) ==
    [cls |-> "Attribute", value |-> value, attr |-> attr, ctx |-> Load]
Index(value) == [cls |-> "Index", value |-> value]
Subscript(value, slice, ctx) ==
    [cls |-> "Subscript", value |-> value, slice |-> slice, ctx |-> ctx]
Call(func, args, keywords) ==
    [cls |-> "Call", func |-> func, args |-> args, keywords |-> keywords]
Keyword(arg, value) == [cls |-> "keyword", arg |-> arg, value |-> value]
ListNode(elts) == [cls |-> "List", elts |-> elts, ctx |-> Load]
TupleNode(elts) == [cls |-> "Tuple", elts |-> elts, ctx |-> Load]
SetNode(elts) == [cls |-> "Set", elts |-> elts]
Dict(keys, values) == [cls |-> "Dict", keys |-> keys, values |-> values]
Arg(arg) == [cls |-> "arg", arg |-> arg, annotation |-> NoneNode]
Arguments(args, kwonlyargs, kw_defaults, kwarg, defaults) ==
    [cls |-> "arguments", args |-> args, vararg |-> NoneNode,
     kwonlyargs |-> kwonlyargs, kw_defaults |-> kw_defaults,
     kwarg |-> kwarg, defaults |-> defaults]
Lambda(args, lbody) == [cls |-> "Lambda", args |-> args, body |-> lbody]

Expr(value) == [cls |-> "Expr", value |-> value]
Assign(targets, value) ==
    [cls |-> "Assign", targets |-> targets, value |-> value]
Return(value) == [cls |-> "Return", value |-> value]
Delete(targets) == [cls |-> "Delete", targets |-> targets]
AssertStmt(test, msg) == [cls |-> "Assert", test |-> test, msg |-> msg]
If(test, ibody, orelse) ==
    [cls |-> "If", test |-> test, body |-> ibody, orelse |-> orelse]
Global(names) == [cls |-> "Global", names |-> names]
ExceptHandler(type, hbody) ==
    [cls |-> "ExceptHandler", type |-> type, name |-> NoneNode,
     body |-> hbody]
Try(tbody, handlers) ==
    [cls |-> "Try", body |-> tbody, handlers |-> handlers,
     orelse |-> <<>>, finalbody |-> <<>>]
\* A FunctionDef as the parser builds it (all fields set).
FunctionDef(name, args, fbody) ==
    [cls |-> "FunctionDef", name |-> name, args |-> args, body |-> fbody,
     decorator_list |-> <<>>, returns |-> NoneNode]

\* A ClassDef as the parser builds it.
ClassDef(name, bases, cbody) ==
    [cls |-> "ClassDef", name |-> name, bases |-> bases, keywords |-> <<>>,
     body |-> cbody, decorator_list |-> <<>>]
AnnAssign(target, annotation, value) ==
    [cls |-> "AnnAssign", target |-> target, annotation |-> annotation,
     value |-> value, simple |-> 1]
\* an f-string, and a replacement field of it (conversion -1: none)
JoinedStr(values) == [cls |-> "JoinedStr", values |-> values]
FormattedValue(value, format_spec) ==
    [cls |-> "FormattedValue", value |-> value, conversion |-> -1,
     format_spec |-> format_spec]
\* ast.NameConstant(value=None): the value is held by its name
NameConstant(value) == [cls |-> "NameConstant", value |-> value]

Module(mbody) == [cls |-> "Module", body |-> mbody]

STMTLIST_FIELD_NAMES == {"body", "orelse", "finalbody"}

\* Field names whose value is a python list, per node class.
ListFieldsOf(cls) ==
    CASE cls = "Call" -> {"args", "keywords"}
      [] cls \in {"List", "Tuple", "Set"} -> {"elts"}
      [] cls = "Dict" -> {"keys", "values"}
      [] cls = "arguments" -> {"args", "kwonlyargs", "kw_defaults", "defaults"}
      [] cls \in {"Assign", "Delete"} -> {"targets"}
      [] cls = "If" -> {"body", "orelse"}
      [] cls = "Global" -> {"names"}
      [] cls = "ExceptHandler" -> {"body"}
      [] cls = "Try" -> {"body", "handlers", "orelse", "finalbody"}
      [] cls = "FunctionDef" -> {"body", "decorator_list"}
      [] cls = "ClassDef" -> {"bases", "keywords", "body", "decorator_list"}
      [] cls = "JoinedStr" -> {"values"}
      [] cls = "Module" -> {"body"}
      [] OTHER -> {}

\* Field names whose value is a primitive (str, int), never a list or node.
PrimFieldsOf(cls) ==
    CASE cls = "Name" -> {"id"}
      [] cls = "Num" -> {"n"}
      [] cls = "Str" -> {"s"}
      [] cls = "Attribute" -> {"attr"}
      [] cls = "keyword" -> {"arg"}
      [] cls = "arg" -> {"arg"}
      [] cls \in {"FunctionDef", "ClassDef"} -> {"name"}
      [] cls = "AnnAssign" -> {"simple"}
      [] cls = "FormattedValue" -> {"conversion"}
      [] cls = "NameConstant" -> {"value"}
      [] cls = "str" -> {"s"}
      [] OTHER -> {}

\* isinstance(field, list)
IsList(cls, field_name) == field_name \in ListFieldsOf(cls)

\* isinstance(field, ast.AST), for the value of a field that is no list
IsAST(cls, field_name, field) ==
    /\ field_name \notin PrimFieldsOf(cls)
    /\ field_name \notin ListFieldsOf(cls)
    /\ field.cls \notin {"NoneType", "str"}

\* isinstance(field, (list, ast.AST))
IsListOrAST(cls, field_name, field) ==
    IsList(cls, field_name) \/ IsAST(cls, field_name, field)


\* Rank of a field name in python's ordering of str.
FieldNameOrder ==
    <<"annotation", "arg", "args", "attr", "bases", "body", "conversion",
      "ctx", "decorator_list", "defaults", "elts", "finalbody",
      "format_spec", "func", "handlers", "id", "keys", "keywords",
      "kw_defaults", "kwarg", "kwonlyargs", "msg", "n", "name", "names",
      "orelse", "returns", "s", "simple", "slice", "target", "targets",
      "test", "type", "value", "values", "vararg">>

StrRank(field_name) ==
    CHOOSE k \in 1..Len(FieldNameOrder) : FieldNameOrder[k] = field_name

\* node_field_sort_key with the test the other way round: (field_name in
\* STMTLIST_FIELD_NAMES, field_name)
node_field_sort_key_blocks_last(field_name) ==
    <<IF field_name \in STMTLIST_FIELD_NAMES THEN 1 ELSE 0,
      StrRank(field_name)>>

\* node_field_sort_key: the tuple (field_name not in STMTLIST_FIELD_NAMES,
\* field_name); False orders before True.
node_field_sort_key(field_name) ==
    <<IF field_name \notin STMTLIST_FIELD_NAMES THEN 1 ELSE 0,
      StrRank(field_name)>>

KeyLess(k1, k2) == k1[1] < k2[1] \/ (k1[1] = k2[1] /\ k1[2] < k2[2])

\* sorted(ast.iter_fields(node), key=node_field_sort_key), as field names.
SortedFields(node) ==
    LET present == SelectSeq(FieldNameOrder,
                             LAMBDA f : f \in DOMAIN node \ {"cls"})
    IN  SortSeq(present,
                LAMBDA a, b : KeyLess(node_field_sort_key(a),
                                      node_field_sort_key(b)))

\* is_block_field
is_block_field(cls, field_name) ==
    field_name \in STMTLIST_FIELD_NAMES /\ IsList(cls, field_name)

\* setattr(parent_node, field_name, value) on a field of the node class
SetAttr(node, field_name, value) ==
    IF field_name \in DOMAIN node
    THEN [node EXCEPT ![field_name] = value]
    ELSE node

----------------------------------------------------------------------------
(* UnpackingGeneralizationsFixer: detection and expansion.                 *)

ArgUnpackNodes == {"Call", "List", "Tuple", "Set"}
KwArgUnpackNodes == {"Call", "Dict"}

RECURSIVE StarredScan(_, _, _)
\* the loop of has_args_unpacking from element k on
StarredScan(elts, k, has_starred_arg) ==
    IF k > Len(elts) THEN FALSE
    ELSE IF has_starred_arg THEN TRUE
    ELSE StarredScan(elts, k + 1, elts[k].cls = "Starred")

\* has_args_unpacking were a spread in the last place counted too
has_args_unpacking_any_spread(val_node) ==
    \E k \in 1..Len(IF val_node.cls = "Call" THEN val_node.args
                     ELSE val_node.elts) :
        (IF val_node.cls = "Call" THEN val_node.args
         ELSE val_node.elts)[k].cls = "Starred"

has_args_unpacking(val_node) ==
    StarredScan(IF val_node.cls = "Call" THEN val_node.args
                ELSE val_node.elts, 1, FALSE)

RECURSIVE KwStarredScan(_, _, _, _)
\* the loop of has_kwargs_unpacking from entry k on
KwStarredScan(entries, is_call, k, has_kwstarred_arg) ==
    IF k > Len(entries) THEN FALSE
    ELSE IF has_kwstarred_arg THEN TRUE
    ELSE KwStarredScan(entries, is_call, k + 1,
                       \* kw.arg is None: a keyword is never named None
                       IF is_call THEN entries[k].arg = "None"
                       ELSE entries[k].cls = "NoneType")

\* has_kwargs_unpacking as it would be had the keywords of a call been
\* left out of it
has_kwargs_unpacking_dict_only(val_node) ==
    IF val_node.cls = "Call" THEN FALSE
    ELSE KwStarredScan(val_node.keys, FALSE, 1, FALSE)

has_kwargs_unpacking(val_node) ==
    IF val_node.cls = "Call"
    THEN KwStarredScan(val_node.keywords, TRUE, 1, FALSE)
    ELSE KwStarredScan(val_node.keys, FALSE, 1, FALSE)


\* What a method returns or raises.  "some" is FALSE for a returned None;
\* "new" is the replacement node (or list of nodes); "index" is
\* self._tmp_var_index after the call; "err" names the exception raised.
NoUpdate(index) ==
    [some |-> FALSE, prefix_nodes |-> <<>>, new |-> NoneNode,
     del_nodes |-> <<>>, index |-> index, err |-> ""]
Update(prefix_nodes, new, del_nodes, index) ==
    [some |-> TRUE, prefix_nodes |-> prefix_nodes, new |-> new,
     del_nodes |-> del_nodes, index |-> index, err |-> ""]
Raise(exc, index) ==
    [some |-> FALSE, prefix_nodes |-> <<>>, new |-> NoneNode,
     del_nodes |-> <<>>, index |-> index, err |-> exc]

\* the statement for one element of elts were every element appended
ArgsItemStmt_always_append(upg_args_name, arg) ==
    Expr(Call(Attribute(Name(upg_args_name, Load), "append"),
              <<IF arg.cls = "Starred" THEN arg.value ELSE arg>>,
              <<>>))

\* the statement prefix_nodes gets for one element of elts
ArgsItemStmt(upg_args_name, arg) ==
    Expr(Call(Attribute(Name(upg_args_name, Load),
                        IF arg.cls = "Starred" THEN "extend" ELSE "append"),
              <<IF arg.cls = "Starred" THEN arg.value ELSE arg>>,
              <<>>))

expand_args_unpacking(val_node, index) ==
    LET upg_args_name == "upg_args_" \o ToString(index)
        is_call == val_node.cls = "Call"
        func_id == CASE val_node.cls = "List" -> "list"
                     [] val_node.cls = "Tuple" -> "tuple"
                     [] val_node.cls = "Set" -> "set"
                     [] OTHER -> "?"
        new_val_func == IF is_call THEN val_node.func ELSE Name(func_id, Load)
        new_val_keywords == IF is_call THEN val_node.keywords ELSE <<>>
        elts == IF is_call THEN val_node.args ELSE val_node.elts
        init == Assign(<<Name(upg_args_name, Store)>>, ListNode(<<>>))
        prefix_nodes ==
            <<init>> \o [k \in 1..Len(elts) |->
                            ArgsItemStmt(upg_args_name, elts[k])]
        new_val_node ==
            Call(new_val_func, <<Starred(Name(upg_args_name, Load))>>,
                 new_val_keywords)
        del_node == Delete(<<Name(upg_args_name, Del)>>)
    IN  IF val_node.cls \notin ArgUnpackNodes
        THEN Raise("TypeError", index + 1)
        ELSE Update(prefix_nodes, new_val_node, <<del_node>>, index + 1)

\* add_items were every key taken
KwItemOk_any_key(is_call, key) == TRUE

\* add_items: the statement for one (key, val) pair; "TypeError" when the
\* key is neither None, an ast.Str nor a str.  The key of a call is
\* kw.arg, None or a str; a key of a dict display that is a str is a
\* record of class "str".
KwItemOk(is_call, key) ==
    is_call \/ key.cls \in {"NoneType", "Str", "str"}

KwItemStmt(upg_kwargs_name, is_call, key, val) ==
    IF (IF is_call THEN key = "None" ELSE key.cls = "NoneType")
    THEN Expr(Call(Attribute(Name(upg_kwargs_name, Load), "update"),
                   <<val>>, <<>>))
    ELSE Assign(<<Subscript(Name(upg_kwargs_name, Load),
                            Index(IF is_call THEN Str(key)
                                  ELSE IF key.cls = "str" THEN Str(key.s)
                                  ELSE key),
                            Store)>>,
                val)

expand_kwargs_unpacking(val_node, index) ==
    LET upg_kwargs_name == "upg_kwargs_" \o ToString(index)
        is_call == val_node.cls = "Call"
        n == IF is_call THEN Len(val_node.keywords) ELSE Len(val_node.keys)
        key(k) == IF is_call THEN val_node.keywords[k].arg
                  ELSE val_node.keys[k]
        val(k) == IF is_call THEN val_node.keywords[k].value
                  ELSE val_node.values[k]
        init == Assign(<<Name(upg_kwargs_name, Store)>>, Dict(<<>>, <<>>))
        prefix_nodes ==
            <<init>> \o [k \in 1..n |->
                            KwItemStmt(upg_kwargs_name, is_call,
                                       key(k), val(k))]
        args == IF is_call THEN val_node.args ELSE <<>>
        replacenemt_func ==
            IF is_call THEN val_node.func ELSE Name("dict", Load)
        new_val_node ==
            Call(replacenemt_func, args,
                 <<Keyword("None", Name(upg_kwargs_name, Load))>>)
        del_node == Delete(<<Name(upg_kwargs_name, Del)>>)
    IN  IF val_node.cls \notin KwArgUnpackNodes
        THEN Raise("TypeError", index + 1)
        ELSE IF \E k \in 1..n : ~KwItemOk(is_call, key(k))
        THEN Raise("TypeError", index + 1)
        ELSE Update(prefix_nodes, new_val_node, <<del_node>>, index + 1)

make_val_node_update(val_node, index) ==
    CHOOSE x \in UNION {
        {IF a.err # "" THEN a
         ELSE IF a.some /\ has_args_unpacking(a.new)
         THEN Raise("AssertionError", a.index)
         ELSE IF b.err # "" THEN b
         ELSE IF b.some /\ has_kwargs_unpacking(b.new)
         THEN Raise("AssertionError", b.index)
         ELSE IF Len(a.prefix_nodes \o b.prefix_nodes) = 0
         THEN NoUpdate(b.index)
         ELSE IF Len(a.del_nodes \o b.del_nodes) > 0
         THEN Update(a.prefix_nodes \o b.prefix_nodes,
                     IF b.some THEN b.new
                     ELSE IF a.some THEN a.new ELSE val_node,
                     a.del_nodes \o b.del_nodes, b.index)
         ELSE Raise("AssertionError", b.index) :
             \* what the second if statement did, on val_node as the
             \* first left it
             b \in {IF /\ (IF a.some THEN a.new ELSE val_node).cls
                            \in KwArgUnpackNodes
                       /\ has_kwargs_unpacking(IF a.some THEN a.new
                                               ELSE val_node)
                    THEN expand_kwargs_unpacking(IF a.some THEN a.new
                                                 ELSE val_node, a.index)
                    ELSE NoUpdate(a.index)}} :
             \* what the first if statement did
             a \in {IF /\ val_node.cls \in ArgUnpackNodes
                       /\ has_args_unpacking(val_node)
                    THEN expand_args_unpacking(val_node, index)
                    ELSE NoUpdate(index)}} : TRUE

----------------------------------------------------------------------------
(* UnpackingGeneralizationsFixer: the recursive descent.                   *)
(*                                                                         *)
(* A local variable of the python code that holds the result of a call is  *)
(* a value: where the model needs it more than once it is bound by         *)
(*     CHOOSE x \in {e(v) : v \in {call}} : TRUE                           *)
(* which is e(call) with the call evaluated once.  The loops are evaluated *)
(* by halves, in ascending order, over the items they do not leave every   *)
(* local unchanged on.                                                     *)

RECURSIVE NothingToUpdate(_)
RECURSIVE FieldUnchanged(_, _)
RECURSIVE StmtUnchanged(_)

\* make_field_update(node, field_name, field) returns None, with nothing
\* raised and nothing changed, or the loop over the fields of node passes
\* over the field (it is no list and no node).  A block field of an
\* expression is never passed over: it fails the assertion.
FieldUnchanged(node, field_name) ==
    \/ ~IsListOrAST(node.cls, field_name, node[field_name])
    \/ /\ ~is_block_field(node.cls, field_name)
       /\ IF IsList(node.cls, field_name)
          THEN \A k \in 1..Len(node[field_name]) :
                   NothingToUpdate(node[field_name][k])
          ELSE NothingToUpdate(node[field_name])

\* make_single_field_update(field_node) returns None, with nothing raised
\* and nothing changed: field_node is no None and no str, and there is
\* nothing to expand and no block field in it or below it.
NothingToUpdate(field_node) ==
    /\ field_node.cls \notin {"NoneType", "str"}
    /\ ~(field_node.cls \in ArgUnpackNodes /\ has_args_unpacking(field_node))
    /\ ~(/\ field_node.cls \in KwArgUnpackNodes
         /\ has_kwargs_unpacking(field_node))
    /\ \A sub_field_name \in DOMAIN field_node \ {"cls"} :
           FieldUnchanged(field_node, sub_field_name)

\* The loop body of apply_body_updates leaves body, o and the fixer as
\* they are on the field of a statement.
StmtFieldUnchanged(node, field_name) ==
    IF is_block_field(node.cls, field_name)
    THEN \A k \in 1..Len(node[field_name]) :
             StmtUnchanged(node[field_name][k])
    ELSE FieldUnchanged(node, field_name)

StmtUnchanged(node) ==
    \A field_name \in DOMAIN node \ {"cls"} :
        StmtFieldUnchanged(node, field_name)

\* sorted(ast.iter_fields(field_node), key=node_field_sort_key) without
\* the fields the loop over it leaves every local unchanged on
FieldsToVisit(field_node) ==
    SelectSeq(SortedFields(field_node),
              LAMBDA f : ~FieldUnchanged(field_node, f))

\* the same for a statement of a block
StmtFieldsToVisit(node) ==
    SelectSeq(SortedFields(node), LAMBDA f : ~StmtFieldUnchanged(node, f))

TEMP_LAMBDA_NAME == "temp_lambda_as_def"

\* make_temp_lambda_as_def: body.append(Return(lambda.body)), then the def
\* (built without a "returns" field)
make_temp_lambda_as_def(lambda_node, stmts) ==
    [cls |-> "FunctionDef", name |-> TEMP_LAMBDA_NAME,
     args |-> lambda_node.args,
     body |-> Append(stmts, Return(lambda_node.body)),
     decorator_list |-> <<>>]

\* What make_single_field_update and make_list_field_update return or
\* raise has one more field, "in_place": the node (or the list of nodes)
\* the method was called on, as the call left it.  The nodes below it are
\* rewritten where they are by the setattr of make_field_update, also by
\* a call that raises later on.
\*
\* What make_field_update returns or raises, and parent_node as the call
\* left it: with the field the setattr gave it, or, without a setattr,
\* with its field as it was left in place.
FieldResult(u, parent_node) ==
    [some |-> u.some, prefix_nodes |-> u.prefix_nodes,
     del_nodes |-> u.del_nodes, new |-> u.new, index |-> u.index,
     err |-> u.err, in_place |-> u.in_place, parent |-> parent_node]

RECURSIVE make_single_field_update(_, _)
RECURSIVE make_list_field_update(_, _)
RECURSIVE make_field_update(_, _, _, _, _)
RECURSIVE SubFieldsLoop(_, _, _, _, _)
RECURSIVE ListFieldLoop(_, _, _, _, _)

\* The end of an iteration of "for sub_field_name, sub_field in
\* sub_fields": r is what make_field_update returned.  st.lam is the place
\* in all_prefix_nodes of the def built from this lambda, whose args is
\* the object the lambda's args field holds (0 when there is none).
SubFieldsMerge(sub_field_name, st, r) ==
    LET temp_func_def == make_temp_lambda_as_def(r.parent, r.prefix_nodes)
        shared == IF st.lam > 0 /\ sub_field_name = "args"
                  THEN [st.all_prefix_nodes EXCEPT
                            ![st.lam] =
                                SetAttr(@, "args",
                                        IF r.some THEN r.new
                                        ELSE r.in_place)]
                  ELSE st.all_prefix_nodes
    IN  IF r.err # ""
        THEN [st EXCEPT !.err = r.err, !.index = r.index,
                        !.field_node = r.parent,
                        !.all_prefix_nodes = shared]
        ELSE IF ~r.some
        THEN [st EXCEPT !.index = r.index]
        ELSE IF st.field_node.cls = "Lambda"
        THEN [field_node |-> Name(TEMP_LAMBDA_NAME, Load),
              all_prefix_nodes |-> Append(st.all_prefix_nodes, temp_func_def),
              all_del_nodes |->
                  Append(st.all_del_nodes,
                         Delete(<<Name(TEMP_LAMBDA_NAME, Del)>>)),
              index |-> r.index, err |-> "",
              lam |-> Len(st.all_prefix_nodes) + 1]
        ELSE [field_node |-> r.parent,
              all_prefix_nodes |-> shared \o r.prefix_nodes,
              all_del_nodes |-> st.all_del_nodes \o r.del_nodes,
              index |-> r.index, err |-> "", lam |-> st.lam]

\* One iteration of "for sub_field_name, sub_field in sub_fields" of
\* make_single_field_update.  orig is field_node as it was when sub_fields
\* was computed; st holds the locals field_node, all_prefix_nodes,
\* all_del_nodes and the fixer's index.
SubFieldsStep(orig, sub_field_name, st) ==
    IF is_block_field(orig.cls, sub_field_name)
    THEN [st EXCEPT !.err = "AssertionError"]
    ELSE IF ~IsListOrAST(orig.cls, sub_field_name, orig[sub_field_name])
    THEN st
    ELSE CHOOSE x \in
             {SubFieldsMerge(sub_field_name, st, r) :
                  r \in {make_field_update(
                             st.field_node, sub_field_name,
                             orig[sub_field_name],
                             IsList(orig.cls, sub_field_name), st.index)}} :
             TRUE

\* "for sub_field_name, sub_field in sub_fields" for sub_fields[lo..hi]
SubFieldsLoop(orig, sub_fields, lo, hi, st) ==
    IF lo > hi \/ st.err # "" THEN st
    ELSE IF lo = hi THEN SubFieldsStep(orig, sub_fields[lo], st)
    ELSE CHOOSE x \in
             {SubFieldsLoop(orig, sub_fields, (lo + hi) \div 2 + 1, hi, st1) :
                  st1 \in {SubFieldsLoop(orig, sub_fields, lo,
                                         (lo + hi) \div 2, st)}} : TRUE

\* make_single_field_update from "all_prefix_nodes = []" on.  The node it
\* was called on is, after the loop, the local field_node, or the lambda
\* the local was taken off of: the def built from that lambda holds the
\* objects that are the lambda's args and body.
SingleFieldDescend(field_node, sub_fields, index) ==
    CHOOSE x \in
        {(IF st.err # "" THEN Raise(st.err, st.index)
          ELSE IF Len(st.all_prefix_nodes) = 0 THEN NoUpdate(st.index)
          ELSE IF Len(st.all_del_nodes) > 0
          THEN Update(st.all_prefix_nodes, st.field_node, st.all_del_nodes,
                      st.index)
          ELSE Raise("AssertionError", st.index))
         @@ [in_place |->
                 IF st.lam = 0 THEN st.field_node
                 ELSE Lambda(st.all_prefix_nodes[st.lam].args,
                             st.all_prefix_nodes[st.lam].body[
                                 Len(st.all_prefix_nodes[st.lam].body)
                             ].value)] :
             st \in {SubFieldsLoop(
                         field_node, sub_fields, 1, Len(sub_fields),
                         [field_node |-> field_node,
                          all_prefix_nodes |-> <<>>, all_del_nodes |-> <<>>,
                          index |-> index, err |-> "", lam |-> 0])}} : TRUE

\* make_single_field_update, sub_fields being the sorted fields of
\* field_node
SingleFieldUpdate(field_node, sub_fields, index) ==
    LET val_node_update ==
            IF field_node.cls \in ArgUnpackNodes \cup KwArgUnpackNodes
            THEN make_val_node_update(field_node, index)
            ELSE NoUpdate(index)
    IN  IF val_node_update.err # "" \/ val_node_update.some
        THEN val_node_update @@ [in_place |-> field_node]
        \* ast.iter_fields of None or of a str
        ELSE IF field_node.cls \in {"NoneType", "str"}
        THEN Raise("AttributeError", index) @@ [in_place |-> field_node]
        ELSE SingleFieldDescend(field_node, sub_fields, index)

make_single_field_update(field_node, index) ==
    CHOOSE x \in {SingleFieldUpdate(a[1], a[2], a[3]) :
                      a \in {<<field_node, FieldsToVisit(field_node),
                               index>>}} : TRUE

\* The positions of field_nodes the loop of make_list_field_update does
\* more on than append the node to new_field_nodes
NodesToVisit(field_nodes) ==
    SelectSeq([k \in 1..Len(field_nodes) |-> k],
              LAMBDA k : ~NothingToUpdate(field_nodes[k]))

\* The end of the iteration of "for field_node in field_nodes" on
\* field_nodes[k]; st holds all_prefix_nodes, all_del_nodes, the index,
\* new_field_nodes, which has the nodes the loop appends as they are in
\* it from the start, and field_nodes, the list the method was called on
\* with its nodes as the calls left them.
ListFieldMerge(k, st, body_update) ==
    IF body_update.err # ""
    THEN [st EXCEPT !.err = body_update.err, !.index = body_update.index,
                    !.field_nodes[k] = body_update.in_place]
    ELSE IF ~body_update.some
    THEN [st EXCEPT !.index = body_update.index]
    ELSE [all_prefix_nodes |->
              st.all_prefix_nodes \o body_update.prefix_nodes,
          new_field_nodes |->
              [st.new_field_nodes EXCEPT ![k] = body_update.new],
          field_nodes |->
              [st.field_nodes EXCEPT ![k] = body_update.in_place],
          all_del_nodes |-> st.all_del_nodes \o body_update.del_nodes,
          index |-> body_update.index, err |-> ""]

\* "for field_node in field_nodes" for the positions todo[lo..hi]
ListFieldLoop(field_nodes, todo, lo, hi, st) ==
    IF lo > hi \/ st.err # "" THEN st
    ELSE IF lo = hi
    THEN CHOOSE x \in
             {ListFieldMerge(todo[lo], st, body_update) :
                  body_update \in
                      {make_single_field_update(field_nodes[todo[lo]],
                                                st.index)}} : TRUE
    ELSE CHOOSE x \in
             {ListFieldLoop(field_nodes, todo, (lo + hi) \div 2 + 1, hi,
                            st1) :
                  st1 \in {ListFieldLoop(field_nodes, todo, lo,
                                         (lo + hi) \div 2, st)}} : TRUE

\* make_list_field_update on a list that is not empty
ListFieldUpdate(field_nodes, todo, index) ==
    CHOOSE x \in
        {(IF st.err # "" THEN Raise(st.err, st.index)
          ELSE IF Len(st.all_prefix_nodes) = 0 THEN NoUpdate(st.index)
          ELSE IF /\ Len(st.all_del_nodes) > 0
                  /\ Len(st.new_field_nodes) > 0
                  /\ Len(st.new_field_nodes) = Len(field_nodes)
          THEN Update(st.all_prefix_nodes, st.new_field_nodes,
                      st.all_del_nodes, st.index)
          ELSE Raise("AssertionError", st.index))
         @@ [in_place |-> st.field_nodes] :
             st \in {ListFieldLoop(
                         field_nodes, todo, 1, Len(todo),
                         [all_prefix_nodes |-> <<>>,
                          new_field_nodes |-> field_nodes,
                          field_nodes |-> field_nodes,
                          all_del_nodes |-> <<>>,
                          index |-> index, err |-> ""])}} : TRUE

make_list_field_update(field_nodes, index) ==
    IF Len(field_nodes) = 0
    THEN NoUpdate(index) @@ [in_place |-> field_nodes]
    ELSE CHOOSE x \in {ListFieldUpdate(a[1], a[2], a[3]) :
                           a \in {<<field_nodes, NodesToVisit(field_nodes),
                                    index>>}} : TRUE

make_field_update(parent_node, field_name, field, is_list, index) ==
    CHOOSE x \in
        {FieldResult(maybe_body_update,
                     SetAttr(parent_node, field_name,
                             IF maybe_body_update.some
                             THEN maybe_body_update.new
                             ELSE maybe_body_update.in_place)) :
             maybe_body_update \in
                 {IF is_list THEN make_list_field_update(field, index)
                  ELSE make_single_field_update(field, index)}} : TRUE

----------------------------------------------------------------------------
(* UnpackingGeneralizationsFixer.apply_body_updates.                       *)

\* "Expansion overflow" is raised when len(body) > initial_len_body * 100
GrowthLimit == 100

\* body[k:k] = stmts, k a python (0-based) index; a slice past the end
\* of the list inserts at the end
InsertAt(seq, k, stmts) ==
    LET kk == IF k > Len(seq) THEN Len(seq) ELSE k
    IN  SubSeq(seq, 1, kk) \o stmts \o SubSeq(seq, kk + 1, Len(seq))

\* The statements of a block carry a tag while a pass runs over the block:
\* the statement that was body_copy[i] has tag i + 1 (i a python index),
\* a statement inserted during the pass has tag 0.  The tag stands for the
\* identity of the node object: a node is mutated where it is in body.
Tagged(stmts, tag) == [k \in 1..Len(stmts) |-> [tag |-> tag, node |-> stmts[k]]]
TagAll(stmts) == [k \in 1..Len(stmts) |-> [tag |-> k, node |-> stmts[k]]]
Untag(entries) == [k \in 1..Len(entries) |-> entries[k].node]
PosOf(entries, tag) == CHOOSE p \in 1..Len(entries) : entries[p].tag = tag

RECURSIVE apply_body_updates(_, _)
RECURSIVE BodyLoop(_, _, _, _)
RECURSIVE StmtLoop(_, _, _, _, _)
RECURSIVE FieldsLoop(_, _, _, _, _)

\* The splice at the end of the loop body, after "o += len(prefix_nodes)":
\* del_nodes go one past body[i + o] unless that is a Return.  i is the
\* python index of the statement in body_copy, body1 is body.
SpliceDel(st, i, o1, body1, del_nodes) ==
    IF i + o1 >= Len(body1)
    THEN [st EXCEPT !.entries = body1, !.o = o1, !.err = "IndexError"]
    ELSE IF body1[i + o1 + 1].node.cls = "Return"
    THEN [st EXCEPT !.entries = body1, !.o = o1]
    ELSE [st EXCEPT !.entries = InsertAt(body1, i + o1 + 1,
                                         Tagged(del_nodes, 0)),
                    !.o = o1 + 1]

\* body[i + o:i + o] = prefix_nodes and what follows it
Splice(st, i, prefix_nodes, del_nodes) ==
    SpliceDel(st, i, st.o + Len(prefix_nodes),
              InsertAt(st.entries, i + st.o, Tagged(prefix_nodes, 0)),
              del_nodes)

\* One iteration of "for field_name, field in fields" on a field that is
\* no block: p is where the statement is in body
FieldStepExpr(i, field_name, st, p) ==
    CHOOSE x \in
        {IF r.err # ""
         THEN [st EXCEPT !.entries[p].node = r.parent,
                         !.index = r.index, !.err = r.err]
         ELSE IF ~r.some THEN [st EXCEPT !.index = r.index]
         ELSE Splice([st EXCEPT !.entries[p].node = r.parent,
                                !.index = r.index],
                     i, r.prefix_nodes, r.del_nodes) :
             r \in {make_field_update(
                        st.entries[p].node, field_name,
                        st.entries[p].node[field_name],
                        IsList(st.entries[p].node.cls, field_name),
                        st.index)}} : TRUE

\* One iteration of "for field_name, field in fields" on a block field
FieldStepBlock(field_name, st, p) ==
    CHOOSE x \in
        {[st EXCEPT !.entries[p].node = SetAttr(@, field_name, inner.body),
                    !.index = inner.index,
                    !.err = inner.err] :
             inner \in {apply_body_updates(st.entries[p].node[field_name],
                                           st.index)}} : TRUE

\* One iteration of "for field_name, field in fields" for the statement
\* body_copy[i]; st holds body (tagged), o, and the fixer's index.
FieldStep(i, field_name, st) ==
    CHOOSE x \in
        {IF ~IsListOrAST(st.entries[p].node.cls, field_name,
                         st.entries[p].node[field_name])
         THEN st
         ELSE IF is_block_field(st.entries[p].node.cls, field_name)
         THEN FieldStepBlock(field_name, st, p)
         ELSE FieldStepExpr(i, field_name, st, p) :
             p \in {PosOf(st.entries, i + 1)}} : TRUE

\* "for field_name, field in fields" for fields[lo..hi]
FieldsLoop(i, fields, lo, hi, st) ==
    IF lo > hi \/ st.err # "" THEN st
    ELSE IF lo = hi THEN FieldStep(i, fields[lo], st)
    ELSE CHOOSE x \in
             {FieldsLoop(i, fields, (lo + hi) \div 2 + 1, hi, st1) :
                  st1 \in {FieldsLoop(i, fields, lo, (lo + hi) \div 2,
                                      st)}} : TRUE

\* the body of "for i, node in enumerate(body_copy)"
StmtStep(i, fields, st) == FieldsLoop(i, fields, 1, Len(fields), st)

\* The python indices of the statements of body_copy the loop body does
\* not leave body, o and the fixer unchanged on
StmtsToVisit(body_copy) ==
    SelectSeq([k \in 1..Len(body_copy) |-> k - 1],
              LAMBDA i : ~StmtUnchanged(body_copy[i + 1]))

\* "for i, node in enumerate(body_copy)" for the python indices
\* todo[lo..hi]
StmtLoop(body_copy, todo, lo, hi, st) ==
    IF lo > hi \/ st.err # "" THEN st
    ELSE IF lo = hi
    THEN CHOOSE x \in
             {StmtStep(a[1], a[2], a[3]) :
                  a \in {<<todo[lo],
                           StmtFieldsToVisit(body_copy[todo[lo] + 1]),
                           st>>}} : TRUE
    ELSE CHOOSE x \in
             {StmtLoop(body_copy, todo, (lo + hi) \div 2 + 1, hi, st1) :
                  st1 \in {StmtLoop(body_copy, todo, lo, (lo + hi) \div 2,
                                    st)}} : TRUE

\* One iteration of the while loop, after the overflow check.
OnePass(stmts, index) ==
    CHOOSE x \in
        {[body |-> Untag(st.entries), index |-> st.index, err |-> st.err] :
             st \in {StmtLoop(stmts, todo, 1, Len(todo),
                              [entries |-> TagAll(stmts), o |-> 0,
                               index |-> index, err |-> ""]) :
                         todo \in {StmtsToVisit(stmts)}}} : TRUE

\* the overflow check with the factor added and not multiplied
OverflowAdded(stmts, initial_len) == Len(stmts) > initial_len + GrowthLimit

Overflow(stmts, initial_len) == Len(stmts) > initial_len * GrowthLimit

\* the loop left after its first pass, whatever the pass did
LoopDoneAfterOnePass(stmts, prev_len) == prev_len # -1

\* "while prev_len_body != len(body)" is left
LoopDone(stmts, prev_len) == prev_len = Len(stmts)

\* The while loop of apply_body_updates.
BodyLoop(stmts, prev_len, initial_len, index) ==
    IF LoopDone(stmts, prev_len)
    THEN [body |-> stmts, index |-> index, err |-> ""]
    ELSE IF Overflow(stmts, initial_len)
    THEN [body |-> stmts, index |-> index, err |-> "Expansion overflow"]
    ELSE CHOOSE x \in
             {IF r.err # "" THEN r
              ELSE BodyLoop(r.body, Len(stmts), initial_len, r.index) :
                  r \in {OnePass(stmts, index)}} : TRUE

apply_body_updates(stmts, index) ==
    CHOOSE x \in {BodyLoop(a[1], -1, Len(a[1]), a[2]) :
                      a \in {<<stmts, index>>}} : TRUE

----------------------------------------------------------------------------
(* VersionInfo and FixerBase: the version windows.                         *)
(*                                                                         *)
(* A version string is the sequence of its characters.                     *)

\* the characters of version strings, in code point order from "." (46)
VersionChars == <<".", "/", "0", "1", "2", "3", "4", "5", "6", "7", "8", "9">>

\* ord(c)
Ord(c) == 45 + CHOOSE k \in 1..Len(VersionChars) : VersionChars[k] = c

RECURSIVE StrLeq(_, _)
\* a <= b on two python str: by code point, a proper prefix being less
StrLeq(a, b) ==
    IF Len(a) = 0 THEN TRUE
    ELSE IF Len(b) = 0 THEN FALSE
    ELSE IF Head(a) = Head(b) THEN StrLeq(Tail(a), Tail(b))
    ELSE Ord(Head(a)) < Ord(Head(b))

\* str(n) of a number below 100
DigitsOf(n) ==
    IF n < 10 THEN <<VersionChars[n + 3]>>
    ELSE <<VersionChars[(n \div 10) + 3], VersionChars[(n % 10) + 3]>>

\* the literal "<major>.<minor>"
Ver(major, minor) == DigitsOf(major) \o <<".">> \o DigitsOf(minor)

\* VersionInfo.__init__
VersionInfo(apply_since, apply_until, works_since, works_until) ==
    [apply_since |-> apply_since, apply_until |-> apply_until,
     works_since |-> IF works_since = NoneNode THEN apply_since
                     ELSE works_since,
     works_until |-> works_until]

\* the fixer classes that set version_info
FixerClasses ==
    {"GeneratorStopFutureFixer", "UnicodeLiteralsFutureFixer",
     "PrintFunctionFutureFixer", "WithStatementFutureFixer",
     "AbsoluteImportFutureFixer", "DivisionFutureFixer",
     "GeneratorsFutureFixer", "NestedScopesFutureFixer",
     "RangeToXrangeFixer", "RemoveFunctionDefAnnotationsFixer",
     "RemoveAnnAssignFixer", "ShortToLongFormSuperFixer",
     "InlineKWOnlyArgsFixer", "FStringToStrFormatFixer",
     "NewStyleClassesFixer", "ItertoolsBuiltinsFixer",
     "UnpackingGeneralizationsFixer"}

\* the class attribute version_info: (apply_since, apply_until) of each
\* class; no class passes works_since or works_until
ApplyWindow(fixer_cls) ==
    CASE fixer_cls = "GeneratorStopFutureFixer" -> <<Ver(3, 5), Ver(3, 6)>>
      [] fixer_cls \in {"UnicodeLiteralsFutureFixer",
                        "PrintFunctionFutureFixer"} -> <<Ver(2, 6), Ver(2, 7)>>
      [] fixer_cls = "WithStatementFutureFixer" -> <<Ver(2, 5), Ver(2, 5)>>
      [] fixer_cls = "AbsoluteImportFutureFixer" -> <<Ver(2, 5), Ver(2, 7)>>
      [] fixer_cls = "DivisionFutureFixer" -> <<Ver(2, 2), Ver(2, 7)>>
      [] fixer_cls = "GeneratorsFutureFixer" -> <<Ver(2, 2), Ver(2, 2)>>
      [] fixer_cls = "NestedScopesFutureFixer" -> <<Ver(2, 1), Ver(2, 1)>>
      [] fixer_cls \in {"RangeToXrangeFixer",
                        "RemoveFunctionDefAnnotationsFixer"} ->
             <<Ver(1, 0), Ver(2, 7)>>
      [] fixer_cls \in {"RemoveAnnAssignFixer", "InlineKWOnlyArgsFixer"} ->
             <<Ver(1, 0), Ver(3, 5)>>
      [] fixer_cls \in {"ShortToLongFormSuperFixer"} ->
             <<Ver(2, 2), Ver(2, 7)>>
      [] fixer_cls = "FStringToStrFormatFixer" -> <<Ver(2, 6), Ver(3, 5)>>
      [] fixer_cls \in {"NewStyleClassesFixer", "ItertoolsBuiltinsFixer"} ->
             <<Ver(2, 0), Ver(2, 7)>>
      [] fixer_cls = "UnpackingGeneralizationsFixer" ->
             <<Ver(2, 0), Ver(3, 4)>>

version_info(fixer_cls) ==
    VersionInfo(ApplyWindow(fixer_cls)[1], ApplyWindow(fixer_cls)[2],
                NoneNode, NoneNode)

\* FixerBase.is_required_for
is_required_for(fixer_cls, v) ==
    /\ StrLeq(version_info(fixer_cls).apply_since, v)
    /\ StrLeq(v, version_info(fixer_cls).apply_until)

\* FixerBase.is_compatible_with
is_compatible_with(fixer_cls, v) ==
    /\ StrLeq(version_info(fixer_cls).works_since, v)
    /\ \/ version_info(fixer_cls).works_until = NoneNode
       \/ StrLeq(v, version_info(fixer_cls).works_until)

----------------------------------------------------------------------------
(* TransformerFixerBase: the fixers that are an ast.NodeTransformer.       *)

\* node._fields, per node class
IterFields(cls) ==
    CASE cls = "Module" -> <<"body">>
      [] cls = "FunctionDef" ->
             <<"name", "args", "body", "decorator_list", "returns">>
      [] cls = "arguments" -> <<"args", "vararg", "kwonlyargs", "kw_defaults",
                                "kwarg", "defaults">>
      [] cls = "arg" -> <<"arg", "annotation">>
      [] cls = "ClassDef" ->
             <<"name", "bases", "keywords", "body", "decorator_list">>
      [] cls = "AnnAssign" -> <<"target", "annotation", "value", "simple">>
      [] cls = "JoinedStr" -> <<"values">>
      [] cls = "FormattedValue" -> <<"value", "conversion", "format_spec">>
      [] cls = "NameConstant" -> <<"value">>
      [] cls = "Assign" -> <<"targets", "value">>
      [] cls \in {"Expr", "Return", "Index"} -> <<"value">>
      [] cls = "Delete" -> <<"targets">>
      [] cls = "Assert" -> <<"test", "msg">>
      [] cls = "If" -> <<"test", "body", "orelse">>
      [] cls = "Global" -> <<"names">>
      [] cls = "Try" -> <<"body", "handlers", "orelse", "finalbody">>
      [] cls = "ExceptHandler" -> <<"type", "name", "body">>
      [] cls = "Call" -> <<"func", "args", "keywords">>
      [] cls = "keyword" -> <<"arg", "value">>
      [] cls = "Name" -> <<"id", "ctx">>
      [] cls = "Attribute" -> <<"value", "attr", "ctx">>
      [] cls = "Subscript" -> <<"value", "slice", "ctx">>
      [] cls = "Starred" -> <<"value", "ctx">>
      [] cls \in {"List", "Tuple"} -> <<"elts", "ctx">>
      [] cls = "Set" -> <<"elts">>
      [] cls = "Dict" -> <<"keys", "values">>
      [] cls = "Lambda" -> <<"args", "body">>
      [] cls = "Num" -> <<"n">>
      [] cls = "Str" -> <<"s">>
      [] OTHER -> <<>>

\* What a visit gives: the node returned, self.required_imports after it
\* and the exception raised ("" when none).  A node whose visit raised is
\* as the visitor left it.
Visited(node, imports, exc) ==
    [node |-> node, imports |-> imports, err |-> exc]

\* the names ItertoolsBuiltinsFixer.visit_Name rewrites
BuiltinNames == {"map", "zip", "filter"}

\* the import declaration ("itertools", None)
ItertoolsImport == <<"itertools", "None">>

\* visit_Name with "map" the only name it rewrites
visit_Name_map_only(node, imports) ==
    IF node.id # "map" THEN Visited(node, imports, "")
    ELSE Visited(Attribute(Name("itertools", Load), "i" \o node.id),
                 imports \cup {ItertoolsImport}, "")

\* ItertoolsBuiltinsFixer.visit_Name
visit_Name(node, imports) ==
    IF node.id \notin BuiltinNames THEN Visited(node, imports, "")
    ELSE Visited(Attribute(Name("itertools", Load), "i" \o node.id),
                 imports \cup {ItertoolsImport}, "")

\* new_node of InlineKWOnlyArgsFixer for an argument without default:
\* arg_name = kw_name["arg_name"]
KwLookup(kw_name, arg_name) ==
    Assign(<<Name(arg_name, Store)>>,
           Subscript(Name(kw_name, Load), Index(Str(arg_name)), Load))

\* zip(reversed(xs), reversed(ys))
ReversedPairs(xs, ys) ==
    [j \in 1..(IF Len(xs) < Len(ys) THEN Len(xs) ELSE Len(ys)) |->
        <<xs[Len(xs) - j + 1], ys[Len(ys) - j + 1]>>]

RECURSIVE KwOnlyLoop(_, _, _, _, _)
\* "for arg, default in zip(kwonlyargs, kw_defaults)" from the j-th pair
\* on, and what follows the loop; node is the function as mutated so far.
\* The module binds the name IMMUTABLE_EXPR_TYPES nowhere: the isinstance
\* test of a default that is not None raises NameError.
KwOnlyLoop(node, kw_name, pairs, j, imports) ==
    IF j > Len(pairs)
    THEN Visited([node EXCEPT !.args.kwonlyargs = <<>>], imports, "")
    ELSE IF pairs[j][2] = NoneNode
    THEN KwOnlyLoop([node EXCEPT
                         !.body = <<KwLookup(kw_name, pairs[j][1].arg)>> \o @],
                    kw_name, pairs, j + 1, imports)
    ELSE Visited(node, imports, "NameError")

\* InlineKWOnlyArgsFixer.visit_FunctionDef
visit_FunctionDef(node, imports) ==
    IF Len(node.args.kwonlyargs) = 0 THEN Visited(node, imports, "")
    ELSE LET has_kwarg == node.args.kwarg # NoneNode
             kw_name == IF has_kwarg THEN node.args.kwarg.arg ELSE "kwargs"
         IN  KwOnlyLoop(IF has_kwarg THEN node
                        ELSE [node EXCEPT !.args.kwarg = Arg(kw_name)],
                        kw_name,
                        ReversedPairs(node.args.kwonlyargs,
                                      node.args.kw_defaults),
                        1, imports)

\* the classes of FutureImportFixerBase
FutureImportFixers ==
    {"GeneratorStopFutureFixer", "UnicodeLiteralsFutureFixer",
     "PrintFunctionFutureFixer", "WithStatementFutureFixer",
     "AbsoluteImportFutureFixer", "DivisionFutureFixer",
     "GeneratorsFutureFixer", "NestedScopesFutureFixer"}

\* the class attribute future_name
future_name(fixer_cls) ==
    CASE fixer_cls = "GeneratorStopFutureFixer" -> "generator_stop"
      [] fixer_cls = "UnicodeLiteralsFutureFixer" -> "unicode_literals"
      [] fixer_cls = "PrintFunctionFutureFixer" -> "print_function"
      [] fixer_cls = "WithStatementFutureFixer" -> "with_statement"
      [] fixer_cls = "AbsoluteImportFutureFixer" -> "absolute_import"
      [] fixer_cls = "DivisionFutureFixer" -> "division"
      [] fixer_cls = "GeneratorsFutureFixer" -> "generators"
      [] fixer_cls = "NestedScopesFutureFixer" -> "nested_scopes"

\* The body of "for node in ast.walk(tree)" of RangeToXrangeFixer.__call__
RangeToXrange(node) ==
    IF node.cls = "Name" /\ node.id = "range" /\ node.ctx.cls = "Load"
    THEN [node EXCEPT !.id = "xrange"]
    ELSE node

\* The body of "for node in ast.walk(tree)" of
\* RemoveFunctionDefAnnotationsFixer.__call__: the attributes are set,
\* also returns on a def that was built without it
RemoveFunctionDefAnnotations(node) ==
    IF node.cls # "FunctionDef" THEN node
    ELSE [returns |-> NoneNode] @@
         [node EXCEPT
              !.args.args =
                  [k \in 1..Len(@) |-> [@[k] EXCEPT !.annotation = NoneNode]],
              !.args.kwonlyargs =
                  [k \in 1..Len(@) |-> [@[k] EXCEPT !.annotation = NoneNode]],
              !.args.vararg =
                  IF @ # NoneNode THEN [@ EXCEPT !.annotation = NoneNode]
                  ELSE @,
              !.args.kwarg =
                  IF @ # NoneNode THEN [@ EXCEPT !.annotation = NoneNode]
                  ELSE @]

RECURSIVE walk(_, _)
\* "for node in ast.walk(tree)" with the loop body of fixer_cls.__call__:
\* the body is run on a node, then on the nodes that are below it after
\* that (ast.walk takes the children of a node before it yields the node,
\* and what either loop body takes off a node holds no def and, for
\* RangeToXrangeFixer, nothing at all)
walk(fixer_cls, node) ==
    CHOOSE x \in
        {[f \in DOMAIN n |->
             IF f = "cls" THEN n.cls
             ELSE IF IsList(n.cls, f)
             THEN [k \in 1..Len(n[f]) |->
                      IF n[f][k].cls \in {"NoneType", "str"} THEN n[f][k]
                      ELSE walk(fixer_cls, n[f][k])]
             ELSE IF IsAST(n.cls, f, n[f]) THEN walk(fixer_cls, n[f])
             ELSE n[f]] :
             n \in {IF fixer_cls = "RangeToXrangeFixer"
                    THEN RangeToXrange(node)
                    ELSE RemoveFunctionDefAnnotations(node)}} : TRUE

\* RemoveAnnAssignFixer.visit_AnnAssign; "Exception" is
\* Exception(f"Unexpected Node Type {name_node}")
visit_AnnAssign(node, imports) ==
    IF node.target.cls # "Name" THEN Visited(node, imports, "Exception")
    ELSE Visited(Assign(<<node.target>>,
                        IF node.value = NoneNode THEN NameConstant("None")
                        ELSE node.value),
                 imports, "")

RECURSIVE LongFormSuper(_, _, _)
\* The loops of ShortToLongFormSuperFixer.visit_ClassDef on node and the
\* nodes below it.  ast.walk yields a node before the nodes below it, so
\* a call of super without arguments is given its arguments for the
\* outermost def around it that has arguments; self_name is the name of
\* the first argument of that def, "" outside of every such def.  a[1] is
\* node after the loop body, a[2] the name for the nodes below it.
LongFormSuper(node, class_name, self_name) ==
    CHOOSE x \in
        {[f \in DOMAIN a[1] |->
             IF f = "cls" THEN a[1].cls
             ELSE IF IsList(a[1].cls, f)
             THEN [k \in 1..Len(a[1][f]) |->
                      IF a[1][f][k].cls \in {"NoneType", "str"}
                      THEN a[1][f][k]
                      ELSE LongFormSuper(a[1][f][k], class_name, a[2])]
             ELSE IF IsAST(a[1].cls, f, a[1][f])
             THEN LongFormSuper(a[1][f], class_name, a[2])
             ELSE a[1][f]] :
             a \in {<<IF /\ node.cls = "Call"
                         /\ node.func.cls = "Name"
                         /\ node.func.id = "super"
                         /\ Len(node.args) = 0
                         /\ self_name # ""
                      THEN [node EXCEPT
                                !.args = <<Name(class_name, Load),
                                           Name(self_name, Load)>>]
                      ELSE node,
                      IF /\ self_name = ""
                         /\ node.cls = "FunctionDef"
                         /\ Len(node.args.args) > 0
                      THEN node.args.args[1].arg
                      ELSE self_name>>}} : TRUE

\* ShortToLongFormSuperFixer.visit_ClassDef
ShortToLongFormSuper_visit_ClassDef(node, imports) ==
    Visited(LongFormSuper(node, node.name, ""), imports, "")

\* NewStyleClassesFixer.visit_ClassDef
NewStyleClasses_visit_ClassDef(node, imports) ==
    Visited(IF Len(node.bases) = 0
            THEN [node EXCEPT !.bases = Append(@, Name("object", Load))]
            ELSE node,
            imports, "")

\* What _joined_str_str and _formatted_value_str return or raise: the
\* str, and arg_nodes as the call left it.  "Exception" is
\* Exception(f"Unexpected Node Type {...}").
Formatted(fmt_str, arg_nodes, exc) ==
    [fmt_str |-> fmt_str, arg_nodes |-> arg_nodes, err |-> exc]

RECURSIVE joined_str_str(_, _)
RECURSIVE formatted_value_str(_, _)
RECURSIVE JoinedStrLoop(_, _, _)

\* FStringToStrFormatFixer._formatted_value_str
formatted_value_str(fmt_val_node, arg_nodes) ==
    LET arg_index == Len(arg_nodes)
        arg_nodes1 == Append(arg_nodes, fmt_val_node.value)
        format_spec_node == fmt_val_node.format_spec
    IN  IF format_spec_node = NoneNode
        THEN Formatted("{" \o ToString(arg_index) \o "}", arg_nodes1, "")
        ELSE IF format_spec_node.cls # "JoinedStr"
        THEN Formatted("", arg_nodes1, "Exception")
        ELSE CHOOSE x \in
                 {IF r.err # "" THEN r
                  ELSE Formatted("{" \o ToString(arg_index) \o ":"
                                     \o r.fmt_str \o "}",
                                 r.arg_nodes, "") :
                      r \in {joined_str_str(format_spec_node, arg_nodes1)}} :
                 TRUE

\* "for val in joined_str_node.values" from values[k] on; st holds fmt_str
\* and arg_nodes
JoinedStrLoop(values, k, st) ==
    IF k > Len(values) \/ st.err # "" THEN st
    ELSE IF values[k].cls = "Str"
    THEN JoinedStrLoop(values, k + 1,
                       Formatted(st.fmt_str \o values[k].s, st.arg_nodes, ""))
    ELSE IF values[k].cls = "FormattedValue"
    THEN CHOOSE x \in
             {JoinedStrLoop(values, k + 1,
                            Formatted(st.fmt_str \o r.fmt_str, r.arg_nodes,
                                      r.err)) :
                  r \in {formatted_value_str(values[k], st.arg_nodes)}} : TRUE
    ELSE Formatted(st.fmt_str, st.arg_nodes, "Exception")

\* FStringToStrFormatFixer._joined_str_str
joined_str_str(joined_str_node, arg_nodes) ==
    JoinedStrLoop(joined_str_node.values, 1, Formatted("", arg_nodes, ""))

\* FStringToStrFormatFixer.visit_JoinedStr
visit_JoinedStr(node, imports) ==
    CHOOSE x \in
        {IF r.err # "" THEN Visited(node, imports, r.err)
         ELSE Visited(Call(Attribute(Str(r.fmt_str), "format"), r.arg_nodes,
                           <<>>),
                      imports, "") :
             r \in {joined_str_str(node, <<>>)}} : TRUE

RECURSIVE visit(_, _, _)
RECURSIVE VisitList(_, _, _, _)
RECURSIVE VisitFields(_, _, _, _)

\* The loop of generic_visit over the list field old_value from element k
\* on: st.node is new_values.  old_value[:] = new_values is done after the
\* last element; when a visit raises, the list holds the nodes it held
\* before, each as the visits left it: a visitor that returns its node has
\* changed it in place, one that returns a new node leaves it as it was.
\* (No visitor of these fixers returns None or a list.)
VisitList(fixer_cls, old_value, k, st) ==
    IF st.err # "" THEN Visited(old_value, st.imports, st.err)
    ELSE IF k > Len(old_value) THEN st
    ELSE IF old_value[k].cls \in {"NoneType", "str"}
    THEN VisitList(fixer_cls, old_value, k + 1,
                   Visited(Append(st.node, old_value[k]), st.imports, ""))
    ELSE CHOOSE x \in
             {VisitList(
                  fixer_cls,
                  IF <<fixer_cls, old_value[k].cls>>
                         \in {<<"ItertoolsBuiltinsFixer", "Name">>,
                              <<"RemoveAnnAssignFixer", "AnnAssign">>,
                              <<"FStringToStrFormatFixer", "JoinedStr">>}
                  THEN old_value
                  ELSE [old_value EXCEPT ![k] = r.node],
                  k + 1,
                  Visited(Append(st.node, r.node), r.imports, r.err)) :
                  r \in {visit(fixer_cls, old_value[k], st.imports)}} : TRUE

\* The loop of generic_visit over the fields of st.node from fields[k] on
VisitFields(fixer_cls, fields, k, st) ==
    IF k > Len(fields) \/ st.err # "" THEN st
    ELSE VisitFields(
             fixer_cls, fields, k + 1,
             CHOOSE x \in
                 {Visited([st.node EXCEPT ![fields[k]] = r.node], r.imports,
                          r.err) :
                      r \in {IF IsList(st.node.cls, fields[k])
                             THEN VisitList(fixer_cls, st.node[fields[k]],
                                            1, Visited(<<>>, st.imports, ""))
                             ELSE IF IsAST(st.node.cls, fields[k],
                                           st.node[fields[k]])
                             THEN visit(fixer_cls, st.node[fields[k]],
                                        st.imports)
                             ELSE Visited(st.node[fields[k]], st.imports,
                                          "")}} : TRUE)

\* ast.NodeTransformer.generic_visit
generic_visit(fixer_cls, node, imports) ==
    VisitFields(fixer_cls,
                SelectSeq(IterFields(node.cls), LAMBDA f : f \in DOMAIN node),
                1, Visited(node, imports, ""))

\* ast.NodeVisitor.visit: getattr(self, "visit_" + class name,
\* self.generic_visit)
visit(fixer_cls, node, imports) ==
    CASE fixer_cls = "ItertoolsBuiltinsFixer" /\ node.cls = "Name" ->
             visit_Name(node, imports)
      [] fixer_cls = "InlineKWOnlyArgsFixer" /\ node.cls = "FunctionDef" ->
             visit_FunctionDef(node, imports)
      [] fixer_cls = "RemoveAnnAssignFixer" /\ node.cls = "AnnAssign" ->
             visit_AnnAssign(node, imports)
      [] fixer_cls = "ShortToLongFormSuperFixer" /\ node.cls = "ClassDef" ->
             ShortToLongFormSuper_visit_ClassDef(node, imports)
      [] fixer_cls = "FStringToStrFormatFixer" /\ node.cls = "JoinedStr" ->
             visit_JoinedStr(node, imports)
      [] fixer_cls = "NewStyleClassesFixer" /\ node.cls = "ClassDef" ->
             NewStyleClasses_visit_ClassDef(node, imports)
      [] OTHER -> generic_visit(fixer_cls, node, imports)

----------------------------------------------------------------------------
(* packaging: the build of a package.                                      *)
(*                                                                         *)
(* The path of a file under a directory is the sequence of its names,      *)
(* <<"sub", "c.py">> for sub/c.py.  The content of a file is a sequence    *)
(* of strings: <<m>> for a module as written, and what the transpiler      *)
(* made of a content is that content with the selection the transpiler     *)
(* worked by before it.  A directory is a function from paths to contents. *)

\* eval_build_config
eval_build_config ==
    [target_version |-> "2.7", force_transpile |-> "1", fixers |-> "",
     checkers |-> ""]

\* transpile.transpile_module_data(cfg, module_source_data): the module as
\* the fixers selected by cfg for its target version rewrite it; what it
\* returns is told apart by the selection and by the module
transpile_module_data(c, module_source_data) ==
    <<c.target_version, c.fixers>> \o module_source_data

\* hl.sha1(module_source_data).hexdigest(): one digest per content
sha1(module_source_data) == <<"sha1">> \o module_source_data

\* str.endswith
EndsWith(s, end) ==
    /\ Len(s) >= Len(end)
    /\ SubSeq(s, Len(s) - Len(end) + 1, Len(s)) = end

\* _ingore_tmp_files(src, names): the names of directory src that copytree
\* is to leave out
ingore_tmp_files(src, names) ==
    IF EndsWith(src, "build") THEN names
    ELSE IF EndsWith(src, "dist") THEN names
    ELSE IF EndsWith(src, "__pycache__") THEN names
    ELSE {name \in names : EndsWith(name, ".pyc")}

RECURSIVE join(_, _)
\* os.path.join(src, *names)
join(src, names) ==
    IF names = <<>> THEN src
    ELSE join(IF src = "" THEN Head(names)
              ELSE IF EndsWith(src, "/") THEN src \o Head(names)
              ELSE src \o "/" \o Head(names),
              Tail(names))

\* shutil.copytree(src, dst, ignore=_ingore_tmp_files), files being the
\* files under src: the files copied to dst.  A file is copied when, in
\* each directory on its path, ignore leaves the next name of the path in;
\* the names handed to ignore are those of os.listdir of the directory.
copytree(src, files) ==
    LET listdir(d) ==
            {q[Len(d) + 1] :
                 q \in {q \in DOMAIN files :
                            /\ Len(q) > Len(d)
                            /\ SubSeq(q, 1, Len(d)) = d}}
        copied ==
            {p \in DOMAIN files :
                 \A i \in 1..Len(p) :
                     p[i] \notin ingore_tmp_files(
                                     join(src, SubSeq(p, 1, i - 1)),
                                     listdir(SubSeq(p, 1, i - 1)))}
    IN  [p \in copied |-> files[p]]

\* is_abs_path of init_build_package_dir:
\* pl.Path(src_package_dir) == pl.Path(src_package_dir).absolute()
is_abs_path(src_package_dir) == SubSeq(src_package_dir, 1, 1) = "/"

\* pathlib's PurePath.suffix of a path whose last component is name: name
\* from its last dot on, "" when there is none or it is first or last
suffix(name) ==
    LET dots == {k \in 1..Len(name) : SubSeq(name, k, k) = "."}
        i == IF dots = {} THEN 0
             ELSE CHOOSE k \in dots : \A j \in dots : j <= k
    IN  IF 1 < i /\ i < Len(name) THEN SubSeq(name, i, Len(name)) ELSE ""

\* The orders in which os.walk(build_dir), top down, and "for filename in
\* files" give the files of a directory: the files of a directory come
\* before those of the directories in it, and the files under one
\* directory come one after another.
WalkOrders(files) ==
    LET Under(p, d) == Len(p) > Len(d) /\ SubSeq(p, 1, Len(d)) = d
        DirOf(p) == SubSeq(p, 1, Len(p) - 1)
    IN  {q \in [1..Cardinality(DOMAIN files) -> DOMAIN files] :
             /\ \A i, j \in DOMAIN q : i # j => q[i] # q[j]
             /\ \A i, j \in DOMAIN q :
                    (i < j /\ DirOf(q[i]) # DirOf(q[j])) =>
                        ~Under(q[i], DirOf(q[j]))
             /\ \A i, j, k \in DOMAIN q :
                    (i < j /\ j < k) =>
                        \A n \in 1..(Len(q[i]) - 1) :
                            Under(q[k], SubSeq(q[i], 1, n)) =>
                                Under(q[j], SubSeq(q[i], 1, n))}

RECURSIVE build_package(_, _, _, _, _)
\* build_package: "for filename in files" over the paths os.walk gave, from
\* the first of paths on
build_package(c, paths, files, cache_dir, done) ==
    IF paths = <<>>
    THEN [build_dir |-> files, cache |-> cache_dir, transpiled |-> done]
    ELSE LET filepath == Head(paths)
             module_source_data == files[filepath]
             cache_path == sha1(module_source_data)
             \* int(cfg["force_transpile"])
             force == CASE c.force_transpile = "0" -> 0
                        [] c.force_transpile = "1" -> 1
             miss == force # 0 \/ cache_path \notin DOMAIN cache_dir
             cache1 ==
                 IF miss
                 THEN [h \in DOMAIN cache_dir \cup {cache_path} |->
                          IF h = cache_path
                          THEN transpile_module_data(c, module_source_data)
                          ELSE cache_dir[h]]
                 ELSE cache_dir
         IN  IF suffix(filepath[Len(filepath)]) # ".py"
             THEN build_package(c, Tail(paths), files, cache_dir, done)
             ELSE build_package(
                      c, Tail(paths),
                      \* shutil.copy(cache_path, filepath)
                      [files EXCEPT ![filepath] = cache1[cache_path]],
                      cache1,
                      IF miss THEN done \cup {filepath} ELSE done)

----------------------------------------------------------------------------
(* The trees the fixers are run on.                                        *)

NameA == Name("a", Load)
NameB == Name("b", Load)
One == Num(1)
StarA == Starred(NameA)
ArgP == Arguments(<<Arg("p")>>, <<>>, <<>>, NoneNode, <<>>)
ArgQ == Arguments(<<Arg("q")>>, <<>>, <<>>, NoneNode, <<>>)

SeqsUpTo(S, n) == UNION {[1..m -> S] : m \in 0..n}

EltSeqs == SeqsUpTo({One, StarA}, MaxElts)
KwSeqs == SeqsUpTo({Keyword("k", One), Keyword("None", Name("kw", Load))},
                   MaxKeywords)
\* the (key, value) pairs of a dict display; a key None is a spread
DictItems == {<<Str("k"), One>>, <<NoneNode, Name("kw", Load)>>,
              <<One, One>>}
DictOf(items) == Dict([k \in 1..Len(items) |-> items[k][1]],
                      [k \in 1..Len(items) |-> items[k][2]])

Calls0 == {Call(Name("f", Load), args, kws) : args \in EltSeqs, kws \in KwSeqs}
Literals0 == {ListNode(e) : e \in EltSeqs} \cup {TupleNode(e) : e \in EltSeqs}
             \cup {SetNode(e) : e \in EltSeqs}
Dicts0 == {DictOf(items) : items \in SeqsUpTo(DictItems, MaxKeywords)}

\* nodes to nest in other nodes
Inner0 == {Call(Name("g", Load), <<Starred(NameB), One>>, <<>>),
           Call(Name("g", Load), <<>>,
                <<Keyword("None", Name("kw", Load)), Keyword("k", One)>>),
           Call(Name("g", Load), <<Starred(NameB), Starred(NameB)>>,
                <<Keyword("None", Name("kw", Load)),
                  Keyword("None", Name("kw", Load))>>),
           ListNode(<<Starred(NameB), One>>),
           Call(Name("g", Load), <<One>>, <<>>)}
Lambdas0 == {Lambda(ArgP, Call(Name("g", Load),
                               <<Starred(Name("p", Load)), One>>, <<>>)),
             Lambda(ArgQ, Call(Name("h", Load), <<>>,
                               <<Keyword("None", Name("q", Load)),
                                 Keyword("k", One)>>)),
             Lambda(ArgP, Name("p", Load))}
Nested1 ==
    {Call(Name("f", Load), <<StarA, x>>, <<>>) : x \in Inner0 \cup Lambdas0}
    \cup {Call(Name("f", Load), <<x>>, <<Keyword("k", y)>>) :
              x \in Inner0 \cup Lambdas0, y \in Inner0}
    \cup {Call(x, <<StarA, One>>, <<>>) : x \in Inner0}
    \cup {ListNode(<<StarA, x>>) : x \in Inner0}
    \cup {DictOf(<<<<NoneNode, NameA>>, <<Str("k"), x>>>>) : x \in Inner0}
    \cup {Lambda(ArgP, x) : x \in Lambdas0}
    \cup {Call(Name("f", Load), <<x, y>>, <<>>) : x \in Lambdas0,
                                                   y \in Lambdas0}
Nested2 ==
    {Call(Name("f", Load), <<StarA, Call(Name("f", Load), <<StarA, x>>, <<>>)>>,
          <<>>) : x \in Inner0}

\* f(*a, 1, ..., 1) with n ones, alone in a block: the block grows to
\* n + 4 statements
WideCall(n) == Call(Name("f", Load), <<StarA>> \o [k \in 1..n |-> One], <<>>)
WideSizes == (GrowthLimit - 4 - WideSlack)..(GrowthLimit - 4 + WideSlack)
Wide == {WideCall(n) : n \in WideSizes}
        \cup {Call(Name("f", Load),
                   <<StarA>> \o [k \in 1..n |-> One] \o <<x>>, <<>>) :
                 n \in WideSizes,
                 x \in {Call(Name("g", Load), <<Starred(NameB), One>>,
                              <<>>)}}

Values == Calls0 \cup Literals0 \cup Dicts0 \cup Nested1 \cup Nested2

\* g(*b, 1), g(**kw, k=1), g(*b, *b, **kw, **kw)
ArgsInner == Call(Name("g", Load), <<Starred(NameB), One>>, <<>>)
KwInner == Call(Name("g", Load), <<>>,
                <<Keyword("None", Name("kw", Load)), Keyword("k", One)>>)
BothInner == Call(Name("g", Load), <<Starred(NameB), Starred(NameB)>>,
                  <<Keyword("None", Name("kw", Load)),
                    Keyword("None", Name("kw", Load))>>)
LambdaP == Lambda(ArgP, Call(Name("g", Load),
                             <<Starred(Name("p", Load)), One>>, <<>>))
Few == {ArgsInner, BothInner, LambdaP, One}

SimpleStmts ==
    {Expr(v) : v \in Values}
    \cup {Assign(<<Name("x", Store)>>, v) : v \in Values}
    \cup {Return(v) : v \in Values}
FewStmts ==
    {Expr(v) : v \in Few} \cup {Return(v) : v \in Few}
    \cup {Assign(<<Name("x", Store)>>, v) : v \in {ArgsInner, BothInner}}
    \cup {AssertStmt(v, w) : v \in {ArgsInner, One},
                             w \in {ArgsInner, BothInner}}
    \cup {Assign(<<Subscript(Name("x", Load), Index(ArgsInner), Store)>>,
                 KwInner)}
\* the statements nested in blocks
InnerStmts ==
    {Expr(v) : v \in {ArgsInner, BothInner, One}}
    \cup {Return(v) : v \in {ArgsInner, One}}
    \cup {Assign(<<Name("x", Store)>>, BothInner),
          AssertStmt(ArgsInner, BothInner), AssertStmt(One, ArgsInner)}
WideStmts ==
    {Expr(v) : v \in Wide} \cup {If(NameA, <<Expr(v)>>, <<>>) : v \in Wide}
BlockStmts ==
    {If(v, <<s>>, <<>>) : v \in {ArgsInner, NameA}, s \in InnerStmts}
    \cup {If(NameA, <<s>>, <<t>>) : s \in {Expr(ArgsInner), Expr(One)},
                                    t \in InnerStmts}
    \cup {FunctionDef("fn", ArgP, <<s, Return(v)>>) :
             s \in InnerStmts, v \in {ArgsInner, One}}
    \cup {Try(<<s>>, <<>>) : s \in InnerStmts}
    \cup {Try(<<Expr(ArgsInner)>>, <<ExceptHandler(NameA, <<t>>)>>) :
             t \in {Expr(ArgsInner), Expr(One)}}
    \cup {Global(<<[cls |-> "str", s |-> "x"]>>)}

Blocks ==
    {<<>>}
    \cup {<<s>> : s \in SimpleStmts \cup FewStmts \cup BlockStmts
                        \cup WideStmts}
    \cup {<<s, t>> : s \in FewStmts, t \in FewStmts}

\* target versions "<major>.<minor>"
Versions == {Ver(major, minor) : major \in 1..3, minor \in 0..MaxMinor}

\* the nodes expand_args_unpacking and expand_kwargs_unpacking are
\* called on
\* the calls and displays, and dict displays built with a key that is a
\* str
ProbeNodes ==
    Calls0 \cup Literals0 \cup Dicts0
    \cup {DictOf(items) :
              items \in {i \in SeqsUpTo(DictItems
                                        \cup {<<[cls |-> "str", s |-> "x"],
                                                One>>},
                                        MaxKeywords) :
                            \E k \in 1..Len(i) : i[k][1].cls = "str"}}

\* keyword-only arguments with their defaults: None (no default), two
\* literals, a list display and a name
KwOnlyNames == {"x", "y", "z"}
KwOnlyDefaults == {NoneNode, Num(2), Str("s"), ListNode(<<>>),
                   Name("d", Load)}
KwOnlySeqs ==
    {ps \in SeqsUpTo(KwOnlyNames \X KwOnlyDefaults, MaxKwOnly) :
        \A i, j \in 1..Len(ps) : i # j => ps[i][1] # ps[j][1]}
KwOnlyFunctions ==
    {FunctionDef("f",
                 Arguments(<<>>, [k \in 1..Len(ps) |-> Arg(ps[k][1])],
                           [k \in 1..Len(ps) |-> ps[k][2]], kwarg, <<>>),
                 fbody) :
         ps \in KwOnlySeqs, kwarg \in {NoneNode, Arg("kw")},
         fbody \in {<<Return(One)>>, <<Expr(One), Return(NameA)>>}}
\* a function at the top of the module, in a block of an if statement, and
\* in the body of a function that has no keyword-only argument or has one
KwOnlyTrees ==
    {<<fd>> : fd \in KwOnlyFunctions}
    \cup {<<If(NameA, <<fd>>, <<>>)>> : fd \in KwOnlyFunctions}
    \cup {<<FunctionDef("outer",
                        Arguments(<<Arg("a")>>, outer_kwonly,
                                  [k \in 1..Len(outer_kwonly) |-> NoneNode],
                                  NoneNode, <<>>),
                        <<fd, Return(NameA)>>)>> :
              fd \in KwOnlyFunctions, outer_kwonly \in {<<>>, <<Arg("w")>>}}

\* statements that name map, zip and filter, and other names, in several
\* places
RefNames == BuiltinNames \cup {"f", "x"}
BuiltinTrees ==
    {<<Expr(Call(Name(m, Load), <<Name(n, Load)>>, <<>>))>> :
         m \in RefNames, n \in RefNames}
    \cup {<<Assign(<<Name(m, Store)>>, Name(n, Load))>> :
              m \in RefNames, n \in RefNames}
    \cup {<<Expr(Attribute(Name(n, Load), "map"))>> : n \in RefNames}
    \cup {<<FunctionDef("map", Arguments(<<Arg("zip")>>, <<>>, <<>>,
                                         NoneNode, <<>>),
                        <<Return(Name(n, Load))>>)>> : n \in RefNames}
    \cup {<<Expr(Call(Name("f", Load), <<>>,
                      <<Keyword("filter", Name(n, Load))>>))>> :
              n \in RefNames}

\* an argument with an annotation
AnnArg(arg) == [Arg(arg) EXCEPT !.annotation = Name("int", Load)]

\* functions with and without annotations
AnnotatedFunctions ==
    {[FunctionDef("f",
                  [Arguments(<<a>>, kwonlyargs,
                             [k \in 1..Len(kwonlyargs) |-> NoneNode],
                             kwarg, <<>>) EXCEPT !.vararg = vararg],
                  <<Return(Name("range", Load))>>)
         EXCEPT !.returns = returns] :
         a \in {Arg("a"), AnnArg("a")},
         vararg \in {NoneNode, AnnArg("v")},
         kwonlyargs \in {<<>>, <<AnnArg("k")>>},
         kwarg \in {NoneNode, AnnArg("kw")},
         returns \in {NoneNode, Name("int", Load)}}

\* annotated assignments, to a name and to an attribute
AnnAssigns ==
    {AnnAssign(target, Name("int", Load), value) :
         target \in {Name("x", Store), Attribute(Name("o", Load), "x")},
         value \in {NoneNode, One, Name("range", Load)}}

\* classes with a method that calls super
ClassDefs ==
    LET super0 == Call(Name("super", Load), <<>>, <<>>)
        super2 == Call(Name("super", Load),
                       <<Name("C", Load), Name("self", Load)>>, <<>>)
        bodies ==
            {<<Return(Call(Attribute(s, "m"), <<>>, <<>>))>> :
                 s \in {super0, super2}}
            \cup {<<FunctionDef("inner", ArgQ, <<Return(super0)>>),
                    Return(Name("range", Load))>>,
                  <<Expr(Call(NameA, <<super0>>,
                              <<Keyword("k", super0)>>))>>}
        methods ==
            {FunctionDef("m", Arguments(args, <<>>, <<>>, NoneNode, <<>>),
                         mbody) :
                 args \in {<<>>, <<Arg("self")>>}, mbody \in bodies}
        classes ==
            {ClassDef("C", bases, <<m>>) :
                 bases \in {<<>>, <<NameB>>}, m \in methods}
    IN  classes
        \cup {ClassDef("D", <<>>, <<c>>) :
                  c \in {ClassDef("C", <<>>, <<m>>) : m \in methods}}
        \cup {ClassDef("C", <<>>, <<Assign(<<Name("x", Store)>>, super0)>>)}

\* f-strings of up to two parts: text, replacement fields, one with a
\* format spec that has a field of its own, and parts that are neither
JoinedStrs ==
    {JoinedStr(values) :
         values \in SeqsUpTo(
             {Str("a"),
              FormattedValue(Name("x", Load), NoneNode),
              FormattedValue(
                  Name("range", Load),
                  JoinedStr(<<Str(">"),
                              FormattedValue(Name("w", Load), NoneNode)>>)),
              FormattedValue(Name("x", Load), Str("bad")),
              Name("z", Load)},
             2)}

\* the trees the other fixers are called on: each statement alone, and,
\* but for a class in a class, in an if and in a function; two annotated
\* assignments, and a call of two f-strings
FixerTrees ==
    LET stmts == AnnotatedFunctions \cup AnnAssigns \cup ClassDefs
                 \cup {Expr(j) : j \in JoinedStrs}
                 \cup {Expr(Call(Name("range", Load), <<NameA>>, <<>>)),
                       Assign(<<Name("range", Store)>>,
                              Name("range", Load))}
        inner == {s \in stmts : s.cls # "ClassDef" \/ s.name # "D"}
        short == {j \in JoinedStrs : Len(j.values) = 1}
    IN  {<<s>> : s \in stmts}
        \cup {<<If(NameA, <<s>>, <<>>)>> : s \in inner}
        \cup {<<FunctionDef("g", ArgP, <<s, Return(NameA)>>)>> :
                  s \in inner}
        \cup {<<s, t>> : s \in AnnAssigns, t \in AnnAssigns}
        \cup {<<Expr(Call(Name("f", Load), <<i, j>>, <<>>))>> :
                  i \in short, j \in short}

----------------------------------------------------------------------------
(* UnpackingGeneralizationsFixer.__call__, one step per iteration of the   *)
(* while loop of the top-level apply_body_updates(tree.body).              *)

Init ==
    /\ fixer = "UnpackingGeneralizationsFixer"
    /\ pc = "idle"
    /\ src_tree \in Blocks
    /\ body = src_tree
    /\ initial_len_body = 0
    /\ prev_len_body = -1
    /\ tmp_var_index = 0
    /\ run = 0
    /\ first_out = [body |-> <<>>, index |-> 0]
    /\ err = ""
    /\ required_imports = {}
    /\ cfg = eval_build_config
    /\ package_dir = <<>>
    /\ build_dir = <<>>
    /\ cache = <<>>
    /\ transpiled = {}
    /\ version = <<>>
    /\ answer = "none"
    /\ probe_in = NoneNode
    /\ probe_out = NoneNode

\* __call__ enters apply_body_updates(tree.body)
UpgCall ==
    /\ pc \in {"idle", "returned"}
    /\ run < MaxRuns
    /\ pc' = "loop"
    /\ run' = run + 1
    /\ initial_len_body' = Len(body)
    /\ prev_len_body' = -1
    /\ UNCHANGED <<fixer, src_tree, body, tmp_var_index, first_out, err,
                   required_imports, version, answer, probe_in, probe_out>>
    /\ UNCHANGED <<cfg, package_dir, build_dir, cache, transpiled>>

\* the loop condition fails: apply_body_updates and __call__ return
UpgReturn ==
    /\ pc = "loop"
    /\ LoopDone(body, prev_len_body)
    /\ pc' = "returned"
    /\ first_out' = IF run = 1
                    THEN [body |-> body, index |-> tmp_var_index]
                    ELSE first_out
    /\ UNCHANGED <<fixer, src_tree, body, initial_len_body, prev_len_body,
                   tmp_var_index, run, err, required_imports, version,
                   answer, probe_in, probe_out>>
    /\ UNCHANGED <<cfg, package_dir, build_dir, cache, transpiled>>

\* raise Exception("Expansion overflow")
UpgOverflow ==
    /\ pc = "loop"
    /\ ~LoopDone(body, prev_len_body)
    /\ Overflow(body, initial_len_body)
    /\ pc' = "raised"
    /\ err' = "Expansion overflow"
    /\ UNCHANGED <<fixer, src_tree, body, initial_len_body, prev_len_body,
                   tmp_var_index, run, first_out, required_imports, version,
                   answer, probe_in, probe_out>>
    /\ UNCHANGED <<cfg, package_dir, build_dir, cache, transpiled>>

\* one iteration of the while loop
UpgPass ==
    /\ pc = "loop"
    /\ ~LoopDone(body, prev_len_body)
    /\ ~Overflow(body, initial_len_body)
    /\ \E r \in {OnePass(body, tmp_var_index)} :
           /\ body' = r.body
           /\ tmp_var_index' = r.index
           /\ err' = r.err
           /\ pc' = IF r.err # "" THEN "raised" ELSE "loop"
    /\ prev_len_body' = Len(body)
    /\ UNCHANGED <<fixer, src_tree, initial_len_body, run, first_out,
                   required_imports, version, answer, probe_in, probe_out>>
    /\ UNCHANGED <<cfg, package_dir, build_dir, cache, transpiled>>

Next == UpgCall \/ UpgReturn \/ UpgOverflow \/ UpgPass

Spec == Init /\ [][Next]_vars

\* A call that was entered runs on: the interpreter executes the loop.
FairSpec == Spec /\ WF_vars(Next)

----------------------------------------------------------------------------
(* The version queries of FixerBase.                                       *)

VersionInit ==
    /\ fixer \in FixerClasses
    /\ pc = "idle"
    /\ version \in Versions
    /\ answer = "none"
    /\ src_tree = <<>>
    /\ body = <<>>
    /\ initial_len_body = 0
    /\ prev_len_body = -1
    /\ tmp_var_index = 0
    /\ run = 0
    /\ first_out = [body |-> <<>>, index |-> 0]
    /\ err = ""
    /\ required_imports = {}
    /\ cfg = eval_build_config
    /\ package_dir = <<>>
    /\ build_dir = <<>>
    /\ cache = <<>>
    /\ transpiled = {}
    /\ probe_in = NoneNode
    /\ probe_out = NoneNode

\* fixer.is_required_for(version)
IsRequiredFor ==
    /\ pc \in {"idle", "compatible"}
    /\ answer' = is_required_for(fixer, version)
    /\ pc' = "required"
    /\ UNCHANGED <<fixer, src_tree, body, initial_len_body, prev_len_body,
                   tmp_var_index, run, first_out, err, required_imports,
                   version, probe_in, probe_out>>
    /\ UNCHANGED <<cfg, package_dir, build_dir, cache, transpiled>>

\* fixer.is_compatible_with(version)
IsCompatibleWith ==
    /\ pc \in {"idle", "required"}
    /\ answer' = is_compatible_with(fixer, version)
    /\ pc' = "compatible"
    /\ UNCHANGED <<fixer, src_tree, body, initial_len_body, prev_len_body,
                   tmp_var_index, run, first_out, err, required_imports,
                   version, probe_in, probe_out>>
    /\ UNCHANGED <<cfg, package_dir, build_dir, cache, transpiled>>

VersionNext == IsRequiredFor \/ IsCompatibleWith

SpecVersion == VersionInit /\ [][VersionNext]_vars

----------------------------------------------------------------------------
(* The methods of UnpackingGeneralizationsFixer that take one node, each   *)
(* called as make_val_node_update and the loops over the fields of a node  *)
(* call it: on a node of the classes it takes.                             *)

ExpandInit ==
    /\ fixer = "UnpackingGeneralizationsFixer"
    /\ pc = "idle"
    /\ probe_in \in ProbeNodes \cup Inner0 \cup Lambdas0 \cup FewStmts
                            \cup BlockStmts
    /\ tmp_var_index \in 0..MaxIndex
    /\ probe_out = NoneNode
    /\ src_tree = <<>>
    /\ body = <<>>
    /\ initial_len_body = 0
    /\ prev_len_body = -1
    /\ run = 0
    /\ first_out = [body |-> <<>>, index |-> 0]
    /\ err = ""
    /\ required_imports = {}
    /\ cfg = eval_build_config
    /\ package_dir = <<>>
    /\ build_dir = <<>>
    /\ cache = <<>>
    /\ transpiled = {}
    /\ version = <<>>
    /\ answer = "none"

\* self.expand_args_unpacking(val_node)
ExpandArgs ==
    /\ pc = "idle"
    /\ probe_in.cls \in ArgUnpackNodes
    /\ \E r \in {expand_args_unpacking(probe_in, tmp_var_index)} :
           /\ probe_out' = r
           /\ tmp_var_index' = r.index
           /\ err' = r.err
    /\ pc' = "args_expanded"
    /\ UNCHANGED <<fixer, src_tree, body, initial_len_body, prev_len_body,
                   run, first_out, required_imports, version, answer,
                   probe_in>>
    /\ UNCHANGED <<cfg, package_dir, build_dir, cache, transpiled>>

\* self.expand_kwargs_unpacking(val_node)
ExpandKwargs ==
    /\ pc = "idle"
    /\ probe_in.cls \in KwArgUnpackNodes
    /\ \E r \in {expand_kwargs_unpacking(probe_in, tmp_var_index)} :
           /\ probe_out' = r
           /\ tmp_var_index' = r.index
           /\ err' = r.err
    /\ pc' = "kwargs_expanded"
    /\ UNCHANGED <<fixer, src_tree, body, initial_len_body, prev_len_body,
                   run, first_out, required_imports, version, answer,
                   probe_in>>
    /\ UNCHANGED <<cfg, package_dir, build_dir, cache, transpiled>>

\* self.has_args_unpacking(val_node)
HasArgsUnpacking ==
    /\ pc = "idle"
    /\ probe_in.cls \in ArgUnpackNodes
    /\ answer' = has_args_unpacking(probe_in)
    /\ pc' = "has_args"
    /\ UNCHANGED <<fixer, src_tree, body, initial_len_body, prev_len_body,
                   tmp_var_index, run, first_out, err, required_imports,
                   version, probe_in, probe_out>>
    /\ UNCHANGED <<cfg, package_dir, build_dir, cache, transpiled>>

\* self.has_kwargs_unpacking(val_node)
HasKwargsUnpacking ==
    /\ pc = "idle"
    /\ probe_in.cls \in KwArgUnpackNodes
    /\ answer' = has_kwargs_unpacking(probe_in)
    /\ pc' = "has_kwargs"
    /\ UNCHANGED <<fixer, src_tree, body, initial_len_body, prev_len_body,
                   tmp_var_index, run, first_out, err, required_imports,
                   version, probe_in, probe_out>>
    /\ UNCHANGED <<cfg, package_dir, build_dir, cache, transpiled>>

\* sorted(ast.iter_fields(node), key=node_field_sort_key): the order the
\* loops of apply_body_updates and make_single_field_update take the
\* fields of node in
SortFields ==
    /\ pc = "idle"
    /\ probe_out' = [fields |-> SortedFields(probe_in)]
    /\ pc' = "fields_sorted"
    /\ UNCHANGED <<fixer, src_tree, body, initial_len_body, prev_len_body,
                   tmp_var_index, run, first_out, err, required_imports,
                   version, answer, probe_in>>
    /\ UNCHANGED <<cfg, package_dir, build_dir, cache, transpiled>>

ExpandNext ==
    \/ ExpandArgs
    \/ ExpandKwargs
    \/ HasArgsUnpacking
    \/ HasKwargsUnpacking
    \/ SortFields

SpecExpand == ExpandInit /\ [][ExpandNext]_vars

----------------------------------------------------------------------------
(* The fixers other than UnpackingGeneralizationsFixer: a fixer, as it was  *)
(* constructed, is called on a module.                                     *)

\* the classes of TransformerFixerBase
TransformerFixers ==
    {"RemoveAnnAssignFixer", "ShortToLongFormSuperFixer",
     "InlineKWOnlyArgsFixer", "FStringToStrFormatFixer",
     "NewStyleClassesFixer", "ItertoolsBuiltinsFixer"}

TransformerInit ==
    /\ fixer \in FixerClasses \ {"UnpackingGeneralizationsFixer"}
    /\ pc = "idle"
    /\ src_tree \in IF fixer \in {"InlineKWOnlyArgsFixer",
                                  "ItertoolsBuiltinsFixer"}
                     THEN KwOnlyTrees \cup BuiltinTrees
                     ELSE FixerTrees \cup BuiltinTrees
    /\ body = src_tree
    /\ required_imports = {}
    /\ cfg = eval_build_config
    /\ package_dir = <<>>
    /\ build_dir = <<>>
    /\ cache = <<>>
    /\ transpiled = {}
    /\ err = ""
    /\ initial_len_body = 0
    /\ prev_len_body = -1
    /\ tmp_var_index = 0
    /\ run = 0
    /\ first_out = [body |-> <<>>, index |-> 0]
    /\ version = <<>>
    /\ answer = "none"
    /\ probe_in = NoneNode
    /\ probe_out = NoneNode

\* TransformerFixerBase.__call__ and ItertoolsBuiltinsFixer.__call__:
\* return self.visit(tree)
TransformerCall ==
    /\ pc = "idle"
    /\ fixer \in TransformerFixers
    /\ \E r \in {visit(fixer, Module(body), required_imports)} :
           /\ body' = r.node.body
           /\ required_imports' = r.imports
           /\ err' = r.err
           /\ pc' = IF r.err # "" THEN "raised" ELSE "returned"
    /\ run' = run + 1
    /\ UNCHANGED <<fixer, src_tree, initial_len_body, prev_len_body,
                   tmp_var_index, first_out, version, answer, probe_in,
                   probe_out>>
    /\ UNCHANGED <<cfg, package_dir, build_dir, cache, transpiled>>

\* FutureImportFixerBase.__call__
FutureImportCall ==
    /\ pc = "idle"
    /\ fixer \in FutureImportFixers
    /\ required_imports' =
           required_imports \cup {<<"__future__", future_name(fixer)>>}
    /\ pc' = "returned"
    /\ run' = run + 1
    /\ UNCHANGED <<fixer, src_tree, body, initial_len_body, prev_len_body,
                   tmp_var_index, first_out, err, version, answer, probe_in,
                   probe_out>>
    /\ UNCHANGED <<cfg, package_dir, build_dir, cache, transpiled>>

\* RangeToXrangeFixer.__call__
RangeToXrangeCall ==
    /\ pc = "idle"
    /\ fixer = "RangeToXrangeFixer"
    /\ body' = walk(fixer, Module(body)).body
    /\ pc' = "returned"
    /\ run' = run + 1
    /\ UNCHANGED <<fixer, src_tree, initial_len_body, prev_len_body,
                   tmp_var_index, first_out, err, required_imports, version,
                   answer, probe_in, probe_out>>
    /\ UNCHANGED <<cfg, package_dir, build_dir, cache, transpiled>>

\* RemoveFunctionDefAnnotationsFixer.__call__
RemoveFunctionDefAnnotationsCall ==
    /\ pc = "idle"
    /\ fixer = "RemoveFunctionDefAnnotationsFixer"
    /\ body' = walk(fixer, Module(body)).body
    /\ pc' = "returned"
    /\ run' = run + 1
    /\ UNCHANGED <<fixer, src_tree, initial_len_body, prev_len_body,
                   tmp_var_index, first_out, err, required_imports, version,
                   answer, probe_in, probe_out>>
    /\ UNCHANGED <<cfg, package_dir, build_dir, cache, transpiled>>

TransformerNext ==
    \/ TransformerCall
    \/ FutureImportCall
    \/ RangeToXrangeCall
    \/ RemoveFunctionDefAnnotationsCall

SpecTransformer == TransformerInit /\ [][TransformerNext]_vars

----------------------------------------------------------------------------
(* packaging: a package is copied to the build directory and built, with   *)
(* one configuration or another, CACHE_DIR being kept from build to build. *)

\* packages: a relative path, one that ends in build and an absolute one;
\* modules, a compiled file, a text, and directories of the package, one
\* of them dist
Packages ==
    {[src |-> src, files |-> files] :
         src \in {"pkg", "mybuild", "/abs/pkg"},
         files \in UNION {[paths -> {<<"m1">>, <<"m2">>}] :
                             paths \in {{<<"a.py">>, <<"b.py">>,
                                         <<"notes.txt">>},
                                        {<<"a.py">>, <<"a.pyc">>,
                                         <<"notes.txt">>},
                                        {<<"a.py">>, <<"sub", "c.py">>,
                                         <<"dist", "b.py">>}}}}

\* nothing is under build/lib3to6_out
BuildInit ==
    /\ pc = "idle"
    /\ package_dir \in Packages
    /\ build_dir = [p \in {} |-> <<>>]
    /\ cache = <<>>
    /\ cfg = eval_build_config
    /\ transpiled = {}
    /\ run = 0
    /\ fixer = "none"
    /\ src_tree = <<>>
    /\ body = <<>>
    /\ initial_len_body = 0
    /\ prev_len_body = -1
    /\ tmp_var_index = 0
    /\ first_out = [body |-> <<>>, index |-> 0]
    /\ err = ""
    /\ required_imports = {}
    /\ version = <<>>
    /\ answer = "none"
    /\ probe_in = NoneNode
    /\ probe_out = NoneNode

\* init_build_package_dir: an absolute src_package_dir raises
\* Exception(f"package_dir must use relative paths, got ..."); otherwise
\* the build directory is removed and the package copied to it again
InitBuildPackageDir ==
    /\ pc \in {"idle", "built"}
    /\ IF is_abs_path(package_dir.src)
       THEN /\ err' = "Exception"
            /\ pc' = "raised"
            /\ UNCHANGED build_dir
       ELSE /\ build_dir' = copytree(package_dir.src, package_dir.files)
            /\ pc' = "copied"
            /\ UNCHANGED err
    /\ UNCHANGED <<fixer, src_tree, body, initial_len_body, prev_len_body,
                   tmp_var_index, run, first_out, required_imports,
                   version, answer, probe_in, probe_out, cfg, package_dir,
                   cache, transpiled>>

\* build_package(cfg, package, build_dir); os.walk gives the files of the
\* directory in an order of its own
BuildPackage ==
    /\ pc \in {"copied", "built"}
    /\ run < MaxBuilds
    /\ \E c \in [target_version : {"2.7", "3.6"},
                 force_transpile : {"0", "1"},
                 fixers : {"", "itertools_builtins"},
                 checkers : {""}] :
       \E paths \in WalkOrders(build_dir) :
       \E r \in {build_package(c, paths, build_dir, cache, {})} :
           /\ cfg' = c
           /\ build_dir' = r.build_dir
           /\ cache' = r.cache
           /\ transpiled' = r.transpiled
    /\ run' = run + 1
    /\ pc' = "built"
    /\ UNCHANGED <<fixer, src_tree, body, initial_len_body, prev_len_body,
                   tmp_var_index, first_out, err, required_imports, version,
                   answer, probe_in, probe_out, package_dir>>

BuildNext == InitBuildPackageDir \/ BuildPackage

SpecBuild == BuildInit /\ [][BuildNext]_vars

----------------------------------------------------------------------------
(* Properties of UnpackingGeneralizationsFixer.__call__.                   *)

\* how many positions of a sequence satisfy Test
CountOf(seq, Test(_)) == Cardinality({k \in 1..Len(seq) : Test(seq[k])})

IsStarred(node) == node.cls = "Starred"
IsKwSpread(kw) == kw.arg = "None"
IsKeySpread(key) == key.cls = "NoneType"

RECURSIVE AtMostOneSpread(_)
\* no Call, List, Tuple, Set or Dict in node or below it has more than one
\* spread in its positional list, or in its keyword list
AtMostOneSpread(node) ==
    /\ node.cls = "Call" =>
           /\ CountOf(node.args, IsStarred) <= 1
           /\ CountOf(node.keywords, IsKwSpread) <= 1
    /\ node.cls \in {"List", "Tuple", "Set"} =>
           CountOf(node.elts, IsStarred) <= 1
    /\ node.cls = "Dict" => CountOf(node.keys, IsKeySpread) <= 1
    /\ \A f \in DOMAIN node \ {"cls"} :
           IF IsList(node.cls, f)
           THEN \A k \in 1..Len(node[f]) : AtMostOneSpread(node[f][k])
           ELSE IsAST(node.cls, f, node[f]) => AtMostOneSpread(node[f])

\* C2: when __call__ returns, no Call, List, Tuple, Set or Dict anywhere in
\* the tree has more than one spread in its positional list or in its
\* keyword list.
C2_ExpansionElimination ==
    pc = "returned" => \A k \in 1..Len(body) : AtMostOneSpread(body[k])

\* the fixer returned on a tree that had a node with several spreads
C2_Witness ==
    /\ pc = "returned"
    /\ \E k \in 1..Len(src_tree) : ~AtMostOneSpread(src_tree[k])
    /\ \A k \in 1..Len(body) : AtMostOneSpread(body[k])

\* C4: apply_body_updates terminates; it returns only when the last pass
\* left the length of the block unchanged, the block then being at most
\* 100 times as long as on entry, and a block that has grown past that at
\* the head of the loop makes it raise "Expansion overflow".
C4_BoundedTermination ==
    /\ [](pc = "returned" =>
              /\ prev_len_body = Len(body)
              /\ Len(body) <= initial_len_body * GrowthLimit)
    /\ [][(pc = "loop" /\ Len(body) > initial_len_body * GrowthLimit) =>
              (pc' = "raised" /\ err' = "Expansion overflow")]_vars
    /\ (pc = "loop" ~> pc \in {"returned", "raised"})

\* the block grew past 100 times its length and the overflow was raised
C4_Witness ==
    /\ pc = "raised"
    /\ err = "Expansion overflow"
    /\ Len(body) > initial_len_body * GrowthLimit

\* C5: running the fixer again on the tree it returned changes nothing:
\* the tree and the fixer's counter stay as the first call left them, and
\* nothing is raised.
C5_Idempotence ==
    run >= 2 =>
        /\ body = first_out.body
        /\ tmp_var_index = first_out.index
        /\ pc # "raised"

\* the second call returned on a tree the first call had rewritten
C5_Witness ==
    /\ run = 2
    /\ pc = "returned"
    /\ first_out.body # src_tree
    /\ body = first_out.body

\* the function definition a reference to name made in stmts[k] refers to:
\* the last one of that name before it (None when there is none)
DefInEffect(stmts, k, name) ==
    LET defs == {j \in 1..(k - 1) : /\ stmts[j].cls = "FunctionDef"
                                    /\ stmts[j].name = name}
    IN  IF defs = {} THEN NoneNode
        ELSE stmts[CHOOSE j \in defs : \A i \in defs : i <= j]

\* The tree was the one statement f(x1, ..., xn), each xi a lambda, and
\* where, in stmts, the call is after the rewrite.
IsCallOfLambdas(stmts) ==
    /\ Len(stmts) = 1
    /\ stmts[1].cls = "Expr"
    /\ stmts[1].value.cls = "Call"
    /\ stmts[1].value.keywords = <<>>
    /\ Len(stmts[1].value.args) > 0
    /\ \A i \in 1..Len(stmts[1].value.args) :
           stmts[1].value.args[i].cls = "Lambda"
CallPlace(stmts, func) ==
    {k \in 1..Len(stmts) : /\ stmts[k].cls = "Expr"
                           /\ stmts[k].value.cls = "Call"
                           /\ stmts[k].value.func = func}

\* C6: a lambda whose body needs hoisting is replaced by a reference to a
\* function definition that has the lambda's parameters, ends in a return
\* and is in effect where the statement is; this holds of every lambda of
\* a statement that has several.
C6_LambdaHoist ==
    (pc = "returned" /\ run = 1 /\ IsCallOfLambdas(src_tree)) =>
        \E k \in CallPlace(body, src_tree[1].value.func) :
            \A i \in 1..Len(src_tree[1].value.args) :
                ~NothingToUpdate(src_tree[1].value.args[i].body) =>
                    /\ body[k].value.args[i].cls = "Name"
                    /\ LET def == DefInEffect(body, k,
                                              body[k].value.args[i].id)
                       IN  /\ def.cls = "FunctionDef"
                           /\ def.args = src_tree[1].value.args[i].args
                           /\ def.body[Len(def.body)].cls = "Return"

----------------------------------------------------------------------------
(* Properties of the version queries.                                      *)

RECURSIVE NumOf(_)
\* the number a string of digits writes
NumOf(digits) ==
    IF Len(digits) = 0 THEN 0
    ELSE 10 * NumOf(SubSeq(digits, 1, Len(digits) - 1))
         + (Ord(digits[Len(digits)]) - 48)

\* the components <<major, minor>> of "<major>.<minor>"
Components(v) ==
    LET dot == CHOOSE k \in 1..Len(v) : v[k] = "."
    IN  <<NumOf(SubSeq(v, 1, dot - 1)), NumOf(SubSeq(v, dot + 1, Len(v)))>>

\* a <= b by components: major first, then minor as a number
VersionLeq(a, b) ==
    \/ Components(a)[1] < Components(b)[1]
    \/ /\ Components(a)[1] = Components(b)[1]
       /\ Components(a)[2] <= Components(b)[2]

\* C1: is_required_for(v) is true iff apply_since <= v <= apply_until and
\* is_compatible_with(v) is true iff works_since <= v and works_until is
\* absent or v <= works_until, the versions compared by their numeric
\* components (3.10 is after 3.5 and 3.9).
C1_VersionOrder ==
    /\ pc = "required" =>
           (answer <=> /\ VersionLeq(version_info(fixer).apply_since, version)
                       /\ VersionLeq(version, version_info(fixer).apply_until))
    /\ pc = "compatible" =>
           (answer <=>
                /\ VersionLeq(version_info(fixer).works_since, version)
                /\ \/ version_info(fixer).works_until = NoneNode
                   \/ VersionLeq(version, version_info(fixer).works_until))

----------------------------------------------------------------------------
(* Properties of expand_args_unpacking and expand_kwargs_unpacking.        *)

\* the call temp.<method>(<args>) as a statement
IsMethodCall(stmt, temp, method, args) ==
    /\ stmt.cls = "Expr"
    /\ stmt.value.cls = "Call"
    /\ stmt.value.func.cls = "Attribute"
    /\ stmt.value.func.value = Name(temp, Load)
    /\ stmt.value.func.attr = method
    /\ stmt.value.args = args
    /\ stmt.value.keywords = <<>>

\* C3: expand_args_unpacking on e1..en gives temp = [] and then n
\* statements, the i-th being temp.extend(x) when ei is *x and
\* temp.append(ei) otherwise, temp being a name made from the counter,
\* which moves on; the replacement is a call whose positional arguments
\* are the one spread *temp.
C3_ArgsOrder ==
    pc = "args_expanded" =>
        LET elts == IF probe_in.cls = "Call" THEN probe_in.args
                    ELSE probe_in.elts
            temp == "upg_args_" \o ToString(tmp_var_index - 1)
            stmts == probe_out.prefix_nodes
        IN  /\ probe_out.err = ""
            /\ probe_out.some
            /\ Len(stmts) = Len(elts) + 1
            /\ stmts[1].cls = "Assign"
            /\ stmts[1].targets = <<Name(temp, Store)>>
            /\ stmts[1].value.cls = "List"
            /\ stmts[1].value.elts = <<>>
            /\ \A i \in 1..Len(elts) :
                   IF elts[i].cls = "Starred"
                   THEN IsMethodCall(stmts[i + 1], temp, "extend",
                                     <<elts[i].value>>)
                   ELSE IsMethodCall(stmts[i + 1], temp, "append",
                                     <<elts[i]>>)
            /\ probe_out.new.cls = "Call"
            /\ Len(probe_out.new.args) = 1
            /\ probe_out.new.args[1].cls = "Starred"
            /\ probe_out.new.args[1].value = Name(temp, Load)

\* f(*a, 1, *a) was expanded: extend, append, extend
C3_Witness ==
    /\ pc = "args_expanded"
    /\ probe_in.cls = "Call"
    /\ Len(probe_in.args) = 3
    /\ probe_in.args[1].cls = "Starred"
    /\ probe_in.args[2].cls # "Starred"
    /\ probe_in.args[3].cls = "Starred"
    /\ Len(probe_out.prefix_nodes) = 4
    /\ probe_out.prefix_nodes[2].value.func.attr = "extend"
    /\ probe_out.prefix_nodes[3].value.func.attr = "append"
    /\ probe_out.prefix_nodes[4].value.func.attr = "extend"

\* the entries of a call's keywords or of a dict display, as <<key, value,
\* is a spread, is named by a string>>, the key of an entry named by a str
\* as the string literal of it
KwEntries(node) ==
    IF node.cls = "Call"
    THEN [k \in 1..Len(node.keywords) |->
             <<Str(node.keywords[k].arg), node.keywords[k].value,
               node.keywords[k].arg = "None", TRUE>>]
    ELSE [k \in 1..Len(node.keys) |->
             <<IF node.keys[k].cls = "str" THEN Str(node.keys[k].s)
               ELSE node.keys[k],
               node.values[k],
               node.keys[k].cls = "NoneType",
               node.keys[k].cls \in {"Str", "str"}>>]

\* a dict display with an entry that is no spread and whose key is no
\* string literal
HasBadKey(node) ==
    /\ node.cls = "Dict"
    /\ \E k \in 1..Len(KwEntries(node)) :
           ~KwEntries(node)[k][3] /\ ~KwEntries(node)[k][4]

\* C10: expand_kwargs_unpacking gives temp = {} and then one statement
\* per entry, in order: temp[key] = value for a named entry and
\* temp.update(value) for a spread; the replacement is a call with the
\* one keyword spread **temp.  It raises TypeError iff the node is a dict
\* display with an entry that is no spread and whose key is no string
\* literal.
C10_KwargsExpansion ==
    pc = "kwargs_expanded" =>
        LET entries == KwEntries(probe_in)
            temp == "upg_kwargs_" \o ToString(tmp_var_index - 1)
            stmts == probe_out.prefix_nodes
        IN  /\ probe_out.err # "" <=> HasBadKey(probe_in)
            /\ probe_out.err \in {"", "TypeError"}
            /\ ~HasBadKey(probe_in) =>
                   /\ Len(stmts) = Len(entries) + 1
                   /\ stmts[1].cls = "Assign"
                   /\ stmts[1].targets = <<Name(temp, Store)>>
                   /\ stmts[1].value = Dict(<<>>, <<>>)
                   /\ \A i \in 1..Len(entries) :
                          IF entries[i][3]
                          THEN IsMethodCall(stmts[i + 1], temp, "update",
                                            <<entries[i][2]>>)
                          ELSE /\ stmts[i + 1].cls = "Assign"
                               /\ stmts[i + 1].value = entries[i][2]
                               /\ Len(stmts[i + 1].targets) = 1
                               /\ stmts[i + 1].targets[1].cls = "Subscript"
                               /\ stmts[i + 1].targets[1].value =
                                      Name(temp, Load)
                               /\ stmts[i + 1].targets[1].slice.value =
                                      entries[i][1]
                   /\ probe_out.new.cls = "Call"
                   /\ Len(probe_out.new.keywords) = 1
                   /\ probe_out.new.keywords[1].arg = "None"
                   /\ probe_out.new.keywords[1].value = Name(temp, Load)

\* a dict display with a named entry and a spread was expanded
C10_Witness ==
    /\ pc = "kwargs_expanded"
    /\ probe_in.cls = "Dict"
    /\ probe_out.err = ""
    /\ Len(probe_out.prefix_nodes) = 3
    /\ \E i, j \in 1..Len(probe_in.keys) :
           /\ probe_in.keys[i].cls = "NoneType"
           /\ probe_in.keys[j].cls = "Str"
           /\ probe_out.prefix_nodes[i + 1].cls = "Expr"
           /\ probe_out.prefix_nodes[j + 1].cls = "Assign"

----------------------------------------------------------------------------
(* Properties of InlineKWOnlyArgsFixer and ItertoolsBuiltinsFixer.         *)

\* the function of a tree of KwOnlyTrees
TheFunction(stmts) ==
    IF stmts[1].cls = "If" THEN stmts[1].body[1] ELSE stmts[1]

\* InlineKWOnlyArgsFixer was called on a function with keyword-only
\* arguments
KwOnlyCase ==
    /\ fixer = "InlineKWOnlyArgsFixer"
    /\ pc # "idle"
    /\ TheFunction(src_tree).cls = "FunctionDef"
    /\ Len(TheFunction(src_tree).args.kwonlyargs) > 0

\* a default that is a literal
IsLiteral(default) == default.cls \in {"Num", "Str"}

\* some keyword-only argument has a default that is no literal
NonLiteralDefault ==
    \E k \in 1..Len(TheFunction(src_tree).args.kw_defaults) :
        /\ TheFunction(src_tree).args.kw_defaults[k] # NoneNode
        /\ ~IsLiteral(TheFunction(src_tree).args.kw_defaults[k])

\* the lookup statement of a keyword-only argument: p = kwargs["p"], or
\* p = kwargs.get("p", default)
LookupOf(kw_name, arg_name, default) ==
    IF default = NoneNode THEN KwLookup(kw_name, arg_name)
    ELSE Assign(<<Name(arg_name, Store)>>,
                Call(Attribute(Name(kw_name, Load), "get"),
                     <<Str(arg_name), default>>, <<>>))

\* C7: on a function whose keyword-only arguments p1..pn have no default
\* or a literal one, InlineKWOnlyArgsFixer returns a function without
\* keyword-only arguments, with the catch-all argument it had or one named
\* kwargs, whose body is the n lookups and then the body it had.
C7_KwOnlyInlined ==
    (KwOnlyCase /\ ~NonLiteralDefault) =>
        LET f == TheFunction(src_tree)
            g == TheFunction(body)
            n == Len(f.args.kwonlyargs)
            kw_name == IF f.args.kwarg = NoneNode THEN "kwargs"
                       ELSE f.args.kwarg.arg
        IN  /\ pc = "returned"
            /\ g.args.kwonlyargs = <<>>
            /\ g.args.kwarg = Arg(kw_name)
            /\ Len(g.body) = n + Len(f.body)
            /\ SubSeq(g.body, n + 1, Len(g.body)) = f.body
            /\ {g.body[k] : k \in 1..n} =
                   {LookupOf(kw_name, f.args.kwonlyargs[k].arg,
                             f.args.kw_defaults[k]) : k \in 1..n}

\* C8: InlineKWOnlyArgsFixer raises "Keyword only arguments must be
\* immutable" iff some keyword-only argument has a default that is no
\* literal; with literal defaults nothing is raised, and with a default
\* that is no literal the call does not return.
C8_ImmutableDefaults ==
    KwOnlyCase =>
        /\ err = "Keyword only arguments must be immutable" <=>
               NonLiteralDefault
        /\ ~NonLiteralDefault => err = ""
        /\ NonLiteralDefault => pc = "raised"

RECURSIVE Flatten(_)
\* the concatenation of a sequence of sequences
Flatten(seqs) ==
    IF Len(seqs) = 0 THEN <<>> ELSE Head(seqs) \o Flatten(Tail(seqs))

RECURSIVE SubNodes(_)
\* node and the nodes below it
SubNodes(node) ==
    <<node>> \o
    Flatten([k \in 1..Len(IterFields(node.cls)) |->
                LET f == IterFields(node.cls)[k]
                IN  IF f \notin DOMAIN node THEN <<>>
                    ELSE IF IsList(node.cls, f)
                    THEN Flatten([i \in 1..Len(node[f]) |->
                                     IF node[f][i].cls \in {"NoneType", "str"}
                                     THEN <<>> ELSE SubNodes(node[f][i])])
                    ELSE IF IsAST(node.cls, f, node[f])
                    THEN SubNodes(node[f])
                    ELSE <<>>])

\* how many references to the name id the statements hold
NameCount(stmts, id) ==
    CountOf(SubNodes(Module(stmts)),
            LAMBDA n : n.cls = "Name" /\ n.id = id)

\* how many itertools.<attr> the statements hold
ItertoolsCount(stmts, attr) ==
    CountOf(SubNodes(Module(stmts)),
            LAMBDA n : /\ n.cls = "Attribute"
                       /\ n.attr = attr
                       /\ n.value = Name("itertools", Load))

\* C9: after ItertoolsBuiltinsFixer, as constructed, ran on a tree, its
\* required_imports holds the itertools import iff the tree had a
\* reference to map, zip or filter; each reference is replaced by
\* itertools.imap, izip or ifilter; a tree without one is left as it was
\* and required_imports is left empty.
C9_ItertoolsImport ==
    (fixer = "ItertoolsBuiltinsFixer" /\ pc # "idle") =>
        /\ pc = "returned"
        /\ ItertoolsImport \in required_imports <=>
               \E id \in BuiltinNames : NameCount(src_tree, id) > 0
        /\ \A id \in BuiltinNames :
               /\ NameCount(body, id) = 0
               /\ ItertoolsCount(body, "i" \o id) = NameCount(src_tree, id)
        /\ (\A id \in BuiltinNames : NameCount(src_tree, id) = 0) =>
               /\ required_imports = {}
               /\ body = src_tree

\* the fixer ran on filter(zip): both are replaced, the import is required
C9_Witness ==
    /\ fixer = "ItertoolsBuiltinsFixer"
    /\ pc = "returned"
    /\ NameCount(src_tree, "filter") = 1
    /\ NameCount(src_tree, "zip") = 1
    /\ ItertoolsCount(body, "ifilter") = 1
    /\ ItertoolsCount(body, "izip") = 1
    /\ required_imports = {ItertoolsImport}

----------------------------------------------------------------------------
(* Properties of the order of the fields and of the detection.             *)

\* the fields are in ascending order of name within the statement-list
\* fields and within the other fields
NamesAscend(fields) ==
    \A j, k \in 1..Len(fields) :
        (/\ j < k
         /\ (fields[j] \in STMTLIST_FIELD_NAMES)
                <=> (fields[k] \in STMTLIST_FIELD_NAMES))
            => StrRank(fields[j]) < StrRank(fields[k])

\* C11 as stated: the loops over the fields of a node take the
\* statement-list fields (body, orelse, finalbody) after every other field
\* of the node, and the fields of each of the two groups in ascending order
\* of name.
C11_BlocksLast ==
    pc = "fields_sorted" =>
        /\ \A j, k \in 1..Len(probe_out.fields) :
               (/\ probe_out.fields[j] \in STMTLIST_FIELD_NAMES
                /\ probe_out.fields[k] \notin STMTLIST_FIELD_NAMES) => k < j
        /\ NamesAscend(probe_out.fields)

\* C11 (amended): the loops over the fields of a node take the
\* statement-list fields (body, orelse, finalbody) before every other field
\* of the node, and the fields of each of the two groups in ascending order
\* of name; every field of the node is taken once.
C11_BlocksFirst ==
    pc = "fields_sorted" =>
        /\ \A j, k \in 1..Len(probe_out.fields) :
               (/\ probe_out.fields[j] \in STMTLIST_FIELD_NAMES
                /\ probe_out.fields[k] \notin STMTLIST_FIELD_NAMES) => j < k
        /\ NamesAscend(probe_out.fields)
        /\ {probe_out.fields[k] : k \in 1..Len(probe_out.fields)}
               = DOMAIN probe_in \ {"cls"}
        /\ Len(probe_out.fields) = Cardinality(DOMAIN probe_in \ {"cls"})

\* the fields of an if statement were sorted: body, orelse, test
C11_Witness ==
    /\ pc = "fields_sorted"
    /\ probe_in.cls = "If"
    /\ probe_out.fields = <<"body", "orelse", "test">>

\* the elements has_args_unpacking scans, the entries has_kwargs_unpacking
\* scans, as "is a spread"
SpreadFlags(node, kw) ==
    IF ~kw
    THEN LET elts == IF node.cls = "Call" THEN node.args ELSE node.elts
         IN  [k \in 1..Len(elts) |-> elts[k].cls = "Starred"]
    ELSE IF node.cls = "Call"
    THEN [k \in 1..Len(node.keywords) |-> node.keywords[k].arg = "None"]
    ELSE [k \in 1..Len(node.keys) |-> node.keys[k].cls = "NoneType"]

\* some spread is followed by a further element
SpreadThenMore(flags) ==
    \E j, k \in 1..Len(flags) : j < k /\ flags[j]

\* C15: has_args_unpacking and has_kwargs_unpacking return true iff some
\* spread element is followed by at least one further element; an empty
\* list, a list without spreads and a list whose only spread is its last
\* element give false.
C15_Detection ==
    /\ pc = "has_args" =>
           /\ answer <=> SpreadThenMore(SpreadFlags(probe_in, FALSE))
           /\ (\A k \in 1..(Len(SpreadFlags(probe_in, FALSE)) - 1) :
                   ~SpreadFlags(probe_in, FALSE)[k]) => ~answer
    /\ pc = "has_kwargs" =>
           /\ answer <=> SpreadThenMore(SpreadFlags(probe_in, TRUE))
           /\ (\A k \in 1..(Len(SpreadFlags(probe_in, TRUE)) - 1) :
                   ~SpreadFlags(probe_in, TRUE)[k]) => ~answer

\* has_args_unpacking returned false on elements whose only spread is the
\* last of several
C15_Witness ==
    /\ pc = "has_args"
    /\ answer = FALSE
    /\ Len(SpreadFlags(probe_in, FALSE)) >= 2
    /\ SpreadFlags(probe_in, FALSE)[Len(SpreadFlags(probe_in, FALSE))]

----------------------------------------------------------------------------
(* Properties of the statements apply_body_updates puts into a block.      *)

\* the names the fixer has made so far: a list or a mapping for each value
\* the counter had, and the name of a def made from a lambda
ListTemps == {"upg_args_" \o ToString(k) : k \in 0..(tmp_var_index - 1)}
MappingTemps == {"upg_kwargs_" \o ToString(k) : k \in 0..(tmp_var_index - 1)}
TempNames == ListTemps \cup MappingTemps \cup {TEMP_LAMBDA_NAME}

RECURSIVE BlocksOf(_)
\* the statement lists of a tree: stmts and the blocks of its statements
BlocksOf(stmts) ==
    {stmts} \cup
    UNION {UNION {BlocksOf(stmts[k][f]) :
                      f \in {g \in DOMAIN stmts[k] :
                                 is_block_field(stmts[k].cls, g)}} :
               k \in 1..Len(stmts)}

\* the nodes of a statement that are in none of its blocks
ExprNodes(stmt) ==
    Flatten([k \in 1..Len(IterFields(stmt.cls)) |->
                LET f == IterFields(stmt.cls)[k]
                IN  IF f \notin DOMAIN stmt \/ is_block_field(stmt.cls, f)
                    THEN <<>>
                    ELSE IF IsList(stmt.cls, f)
                    THEN Flatten([i \in 1..Len(stmt[f]) |->
                                     IF stmt[f][i].cls \in {"NoneType", "str"}
                                     THEN <<>> ELSE SubNodes(stmt[f][i])])
                    ELSE IF IsAST(stmt.cls, f, stmt[f])
                    THEN SubNodes(stmt[f])
                    ELSE <<>>])

\* temp = [] or temp = {}, or def temp(...)
IsInit(stmt, temp) ==
    \/ stmt.cls = "Assign" /\ stmt.targets = <<Name(temp, Store)>>
    \/ stmt.cls = "FunctionDef" /\ stmt.name = temp

\* temp.append(x), temp.extend(x), temp.update(x) or temp[k] = x
IsFill(stmt, temp) ==
    \/ /\ stmt.cls = "Expr"
       /\ stmt.value.cls = "Call"
       /\ stmt.value.func.cls = "Attribute"
       /\ stmt.value.func.value = Name(temp, Load)
    \/ /\ stmt.cls = "Assign"
       /\ Len(stmt.targets) = 1
       /\ stmt.targets[1].cls = "Subscript"
       /\ stmt.targets[1].value = Name(temp, Load)

\* del temp
IsDel(stmt, temp) ==
    stmt.cls = "Delete" /\ stmt.targets = <<Name(temp, Del)>>

\* the statement, whose nodes outside its blocks are nodes, reads temp and
\* is none of the statements that fill it
Uses(stmt, nodes, temp) ==
    /\ ~IsFill(stmt, temp)
    /\ \E k \in 1..Len(nodes) : nodes[k] = Name(temp, Load)

\* C12: the statements hoisted for a field of a statement S are in the
\* block of S before S: for every temporary a statement uses, the
\* statement that initializes it is before the statement in the same
\* block, and so is every statement that initializes or fills a list or
\* mapping temporary; this holds of the second and later fields of a
\* statement too.
C12_HoistedBefore ==
    err = "" =>
        \A blk \in BlocksOf(body) :
            \A p \in 1..Len(blk) :
                \A nodes \in {ExprNodes(blk[p])}, temp \in TempNames :
                    Uses(blk[p], nodes, temp) =>
                        /\ \E q \in 1..(p - 1) : IsInit(blk[q], temp)
                        /\ temp # TEMP_LAMBDA_NAME =>
                               \A q \in 1..Len(blk) :
                                   (IsInit(blk[q], temp)
                                    \/ IsFill(blk[q], temp)) => q < p

\* C13: the deletion statement of a temporary is in the block of the
\* statement that uses it, after that statement, and never before it;
\* when the statement is a return there is no deletion statement.  This
\* holds of a statement that follows one whose rewrite made several
\* temporaries.
C13_DeletionAfter ==
    err = "" =>
        \A blk \in BlocksOf(body) :
            \A p \in 1..Len(blk) :
                \A nodes \in {ExprNodes(blk[p])}, temp \in TempNames :
                    Uses(blk[p], nodes, temp) =>
                        IF blk[p].cls = "Return"
                        THEN temp # TEMP_LAMBDA_NAME =>
                                 \A q \in 1..Len(blk) : ~IsDel(blk[q], temp)
                        ELSE /\ \E q \in (p + 1)..Len(blk) :
                                    IsDel(blk[q], temp)
                             /\ temp # TEMP_LAMBDA_NAME =>
                                    \A q \in 1..Len(blk) :
                                        IsDel(blk[q], temp) => q > p

\* how many statements of the tree initialize temp
InitCount(nodes, temp) ==
    Cardinality({k \in 1..Len(nodes) : IsInit(nodes[k], temp)})

\* C14: the names the fixer made while it ran on a tree are fresh: no two
\* temporaries (lists, mappings, defs made from lambdas) brought into the
\* tree share a name; the counter of the instance, 0 when the instance was
\* made, went up by one for each list or mapping temporary and never
\* down.
C14_FreshNames ==
    /\ (pc = "returned" /\ run = 1) =>
           \A nodes \in {SubNodes(Module(body))} :
               /\ \A temp \in TempNames : InitCount(nodes, temp) <= 1
               /\ Cardinality({temp \in ListTemps \cup MappingTemps :
                                   InitCount(nodes, temp) = 1})
                      = tmp_var_index
    /\ run = 0 => tmp_var_index = 0

\* C16: no assert of UnpackingGeneralizationsFixer fails on a well-formed
\* tree: no node make_single_field_update reaches has a statement-list
\* field, and an update that has hoisted statements has a deletion
\* statement.
C16_AssertsHold ==
    err # "AssertionError"

----------------------------------------------------------------------------
(* Properties of InlineKWOnlyArgsFixer over a whole tree.                  *)

\* the function definitions of a tree that have keyword-only parameters
KwOnlyDefs(stmts) ==
    SelectSeq(SubNodes(Module(stmts)),
              LAMBDA n : n.cls = "FunctionDef" /\ n.args.kwonlyargs # <<>>)

\* C17: after InlineKWOnlyArgsFixer returned on a tree no function
\* definition of the tree has keyword-only parameters, a function nested
\* in the body of another function included, whether or not the
\* enclosing function has keyword-only parameters.
C17_NoKwOnlyLeft ==
    (fixer = "InlineKWOnlyArgsFixer" /\ pc = "returned") =>
        KwOnlyDefs(body) = <<>>

----------------------------------------------------------------------------
(* Properties of build_package.                                            *)

\* C18: after build_package(cfg, package, build_dir) returned, every .py
\* file under build_dir holds transpile_module_data(cfg, c), c being what
\* the file held before the call, whatever cfg is and whatever earlier
\* builds (with another target version or fixer selection, force_transpile
\* off) left in the cache; with force_transpile on every .py file is
\* transpiled and its cache entry written anew.  Other files are left as
\* they are.
C18_BuildCache ==
    [][run' = run + 1 =>
          \A path \in DOMAIN build_dir :
              IF suffix(path[Len(path)]) # ".py"
              THEN build_dir'[path] = build_dir[path]
              ELSE /\ build_dir'[path]
                         = transpile_module_data(cfg', build_dir[path])
                   /\ cfg'.force_transpile = "1" =>
                          /\ path \in transpiled'
                          /\ cache'[sha1(build_dir[path])]
                                 = transpile_module_data(cfg',
                                                         build_dir[path])]_vars

====
